---- MODULE Spec2Model ----
(***************************************************************************)
(* Verification model of kazibee/chrome-browser: the grid addressing       *)
(* functions (colLabel / parseCell), the CDP bridge worker and its parent  *)
(* (runBridge), the Gemini labeling retry protocol, the action executor    *)
(* and the zone scanner.                                                   *)
(*                                                                         *)
(* Strings that the code inspects character by character (grid labels)    *)
(* are sequences of character codes.                                       *)
(***************************************************************************)
EXTENDS Integers, Sequences, FiniteSets, TLC

VARIABLES
    \* ---- grid addressing (colLabel / parseCell) ----
    gridMode,      \* "fromLabel": parseCell then relabel; "fromCoord": label then parseCell
    gridInput,     \* the input: a character sequence, or a record [col, row]
    gridPc,        \* "start" | "mid" | "done"
    gridCoord,     \* result of parseCell (record with field ok)
    gridLabel      \* result of colLabel(col) followed by row + 1

VARIABLES
    \* ---- runBridge (parent) ----
    brPc,          \* "idle" | "waiting": whether runBridge has been called
    brOp,          \* payload.op of the call
    brSettled,     \* the `settled` flag
    brTimer,       \* "none" | "armed" | "fired" | "cleared"
    brOutcome,     \* the promise: [kind |-> "pending" | "resolved" | "rejected", ...]
    brStdout,      \* chunks accumulated in `stdout`
    brStderr,      \* chunks accumulated in `stderr`
    brKills,       \* number of SIGKILLs sent to the child
    brEvents,      \* child events already delivered to the parent ("error", "close")
    \* ---- the bridge worker process (main of the bridge script) ----
    wkPc,          \* position of the worker's main()
    wkThrown,      \* the error main() is failing with, or "none"
    wkOutPipe,     \* chunks written to stdout, not yet read by the parent
    wkErrPipe,     \* chunks written to stderr, not yet read by the parent
    wkResults,     \* number of result objects written to stdout
    wkErrors,      \* number of error messages written to stderr
    wkExit         \* exit code: -1 while running, 0, 1, 137 when killed

VARIABLES
    \* ---- runLabelsAnalysis / runOverviewAnalysis ----
    laKind,        \* "labels" | "overview"
    laPc,          \* "idle" | "first" | "retry" | "done"
    laRequests,    \* the model requests issued so far, in order
    laResponses,   \* what came back for each request, in order
    laOutcome,     \* the analysis promise
    laRequestTimeoutMs, \* options.requestTimeoutMs as Number() sees it
    laTimeoutMs,   \* timeoutMs of geminiGenerateContent
    laLatencies,   \* how long the server took for each request, in ms
    laTimersSet,   \* setTimeout calls made
    laTimersCleared \* clearTimeout calls made

VARIABLES
    \* ---- runExecute (the action executor of the bridge) ----
    exAction,      \* the action being executed
    exPc,          \* "idle" | "running" | "done"
    exWait,        \* navigation wait: "none" | "armed" | "met" | "timedOut"
    exTimeoutMs,   \* timeout handed to the navigation wait (0: no wait)
    exTrigger,     \* triggering interaction: "none" | "running" | "ok" | "failed"
    exSteps,       \* page calls still to be made by a sequential action
    exLog,         \* page calls made so far, in order
    exUrl,         \* the page's current URL
    exNavs,        \* navigations of the page since the action started
    exField,       \* the target field of a type action: its value before and now
    exOutcome      \* the promise returned by runExecute

VARIABLES
    \* ---- the page and the zone scanner ----
    dom,           \* the page's elements in document order (1: html, 2: body)
    page,          \* window geometry: device pixel ratio, sizes, scroll offsets
    scImpl,        \* which bridge runs: "selector" | "kb" | "eval" (one evaluation)
    scZones,       \* the zones of the scanZones call
    scSpace,       \* the coordinate space handed to the scan
    scPc,          \* "idle" | "next" | "evaluating" | "backoff" | "done"
    scIdx,         \* index of the zone being scanned
    scAttempt,     \* attempt number within the zone
    scInFlight,    \* zones whose page.evaluate is in flight
    scTrace,       \* evaluations started and ended: [kind, zone, attempt, error]
    scSleeps,      \* the backoff sleeps taken, in ms
    scLastError,   \* lastError of the retry loop
    scResults,     \* the zone results collected so far
    scOutcome      \* the promise returned by runScanZones

VARIABLES
    \* ---- runGridScreenshot and what gridScreenshot hands to its caller ----
    shFrame,       \* [width, height] of the captured frame, in image px
    shStart,       \* payload.start: a label, or <<>> when absent
    shEnd,         \* payload.end: a label, or <<>> when absent
    shPc,          \* "idle" | "composed" | "done"
    shImage,       \* the composed image: sizes, extracted rectangle, overlay
    shResult,      \* the result object the worker writes, or its error
    shReturned     \* what the gridScreenshot promise settles with

VARIABLES
    \* ---- the client: main(env), launchDaemon and the operations ----
    clEnv,         \* the environment handed to main(env)
    clConfig,      \* the AuthConfig built from it
    clOp,          \* the client operation called
    clPc,          \* "idle" | "called" | "waiting" | "launched" | "done"
    cdpUp,         \* whether the endpoint's /json/version answers 2xx
    clSpawns,      \* browser processes spawned
    clElapsed,     \* ms spent in waitForCdp
    clDaemon,      \* the LaunchResult of launchDaemon, once it returned
    clOutcome      \* the promise of the operation

VARIABLES
    \* ---- findInteractiveElement ----
    fiQuery,       \* the query handed to findInteractiveElement
    fiPc,          \* "idle" | "high" | "extreme" | "done"
    fiHigh,        \* interactiveElements of the high-detail labels result
    fiExtreme,     \* interactiveElements of the extreme-detail labels result
    fiOutcome,     \* the promise: the matched element, or an error
    fiPasses       \* the detail levels labels() was called with, in order

VARIABLES
    \* ---- normalisation of a parsed model answer ----
    noKind,        \* "labels" | "overview"
    noParsed,      \* the parsed JSON value handed to the normaliser
    noPc,          \* "idle" | "done"
    noResult       \* the normalised result

VARIABLES
    \* ---- two public operations called at the same time ----
    coOps,         \* the operation each caller invoked
    coPc,          \* per caller: "called" | "waiting" | "launched" | "bridge" | "done" | "failed"
    coUp,          \* does the CDP endpoint answer /json/version ?
    coBrowsers,    \* browser processes spawned by spawnDaemon
    coElapsed,     \* per caller: milliseconds spent in waitForCdp
    coDaemon,      \* per caller: what its launchDaemon returned
    coWorkers      \* callers whose bridge worker was spawned, in order

gridVars == <<gridMode, gridInput, gridPc, gridCoord, gridLabel>>
parentVars == <<brPc, brOp, brSettled, brTimer, brOutcome, brStdout, brStderr, brKills, brEvents>>
workerVars == <<wkPc, wkThrown, wkOutPipe, wkErrPipe, wkResults, wkErrors, wkExit>>
bridgeVars == <<parentVars, workerVars>>
labelVars == <<laKind, laPc, laRequests, laResponses, laOutcome, laRequestTimeoutMs,
               laTimeoutMs, laLatencies, laTimersSet, laTimersCleared>>
execVars == <<exAction, exPc, exWait, exTimeoutMs, exTrigger, exSteps, exLog, exUrl, exNavs, exField,
              exOutcome>>

scanVars == <<dom, page, scImpl, scZones, scSpace, scPc, scIdx, scAttempt, scInFlight,
              scTrace, scSleeps, scLastError, scResults, scOutcome>>

shotVars == <<shFrame, shStart, shEnd, shPc, shImage, shResult, shReturned>>
clientVars == <<clEnv, clConfig, clOp, clPc, cdpUp, clSpawns, clElapsed, clDaemon, clOutcome>>
findVars == <<fiQuery, fiPc, fiHigh, fiExtreme, fiOutcome, fiPasses>>
normVars == <<noKind, noParsed, noPc, noResult>>
coVars == <<coOps, coPc, coUp, coBrowsers, coElapsed, coDaemon, coWorkers>>

vars == <<gridVars, bridgeVars, labelVars, execVars, scanVars, shotVars, clientVars,
          findVars, normVars, coVars>>

notGrid == <<bridgeVars, labelVars, execVars, scanVars, shotVars, clientVars, findVars, normVars, coVars>>
notBridge == <<gridVars, labelVars, execVars, scanVars, shotVars, clientVars, findVars, normVars, coVars>>
notLabels == <<gridVars, bridgeVars, execVars, scanVars, shotVars, clientVars, findVars, normVars, coVars>>
notExec == <<gridVars, bridgeVars, labelVars, scanVars, shotVars, clientVars, findVars, normVars, coVars>>
notScan == <<gridVars, bridgeVars, labelVars, execVars, shotVars, clientVars, findVars, normVars, coVars>>
notShot == <<gridVars, bridgeVars, labelVars, execVars, scanVars, clientVars, findVars, normVars, coVars>>
notClient == <<gridVars, bridgeVars, labelVars, execVars, scanVars, shotVars, findVars, normVars, coVars>>
notFind == <<gridVars, bridgeVars, labelVars, execVars, scanVars, shotVars, clientVars, normVars, coVars>>
notNorm == <<gridVars, bridgeVars, labelVars, execVars, scanVars, shotVars, clientVars, findVars, coVars>>
notCo == <<gridVars, bridgeVars, labelVars, execVars, scanVars, shotVars, clientVars, findVars, normVars>>

\* ------------------------------------------------------------------------
\* Program constants
\* ------------------------------------------------------------------------
CELL_SIZE == 100
LABEL_MARGIN == 50
DEFAULT_WAIT_TIMEOUT_MS == 30000
BRIDGE_TIMEOUT_MS == 120000
GEMINI_REQUEST_TIMEOUT_MS == 90000

\* ------------------------------------------------------------------------
\* Bounds of the model
\* ------------------------------------------------------------------------
MaxColLetters == 2     \* longest column-letter part of an input label
MaxRowDigits == 2      \* longest digit part of an input label
MaxCol == 730          \* largest zero-based column index fed to colLabel
MaxRow == 11           \* largest zero-based row index fed to the labeller

\* ------------------------------------------------------------------------
\* Values of the parts a specification leaves idle
\* ------------------------------------------------------------------------
NoCoord == [ok |-> FALSE, error |-> "none", col |-> -1, row |-> -1]

GridIdle ==
    /\ gridMode = "idle" /\ gridInput = <<>> /\ gridPc = "idle"
    /\ gridCoord = NoCoord /\ gridLabel = <<>>

Pending == [kind |-> "pending", error |-> "none", op |-> "none"]
Resolved(op) == [kind |-> "resolved", error |-> "none", op |-> op]
Rejected(e, op) == [kind |-> "rejected", error |-> e, op |-> op]

ParentIdle ==
    /\ brPc = "idle" /\ brOp = "none" /\ brSettled = FALSE /\ brTimer = "none"
    /\ brOutcome = Pending /\ brStdout = <<>> /\ brStderr = <<>>
    /\ brKills = 0 /\ brEvents = {}

WorkerIdle ==
    /\ wkPc = "none" /\ wkThrown = "none" /\ wkOutPipe = <<>> /\ wkErrPipe = <<>>
    /\ wkResults = 0 /\ wkErrors = 0 /\ wkExit = -1

BridgeIdle == ParentIdle /\ WorkerIdle

NoOutcome == [kind |-> "pending"]

LabelsIdle ==
    /\ laKind = "none" /\ laPc = "idle" /\ laRequests = <<>> /\ laResponses = <<>>
    /\ laOutcome = NoOutcome
    /\ laRequestTimeoutMs = [finite |-> FALSE, value |-> 0] /\ laTimeoutMs = 0
    /\ laLatencies = <<>> /\ laTimersSet = 0 /\ laTimersCleared = 0

ExecIdle ==
    /\ exAction = [type |-> "none"] /\ exPc = "idle" /\ exWait = "none"
    /\ exTimeoutMs = 0 /\ exTrigger = "none" /\ exSteps = <<>> /\ exLog = <<>>
    /\ exUrl = <<>> /\ exNavs = 0 /\ exOutcome = NoOutcome
    /\ exField = [before |-> <<>>, value |-> <<>>]

NoError == <<>>

ScanIdle ==
    /\ dom = <<>> /\ page = [dprPct |-> 100] /\ scImpl = "none" /\ scZones = <<>>
    /\ scSpace = "viewport" /\ scPc = "idle" /\ scIdx = 0 /\ scAttempt = 0
    /\ scInFlight = {} /\ scTrace = <<>> /\ scSleeps = <<>>
    /\ scLastError = NoError /\ scResults = <<>> /\ scOutcome = NoOutcome

NoImage == [kind |-> "none"]

ShotIdle ==
    /\ shFrame = [width |-> 0, height |-> 0] /\ shStart = <<>> /\ shEnd = <<>>
    /\ shPc = "idle" /\ shImage = NoImage /\ shResult = NoOutcome
    /\ shReturned = NoOutcome

Unset == [set |-> FALSE, value |-> <<>>]
NoEnv == [GEMINI_API_KEY |-> Unset, CHROME_AUTO_LAUNCH |-> Unset]
NoConfig == [autoLaunch |-> TRUE]
NoDaemon == [kind |-> "none"]

ClientIdle ==
    /\ clEnv = NoEnv /\ clConfig = NoConfig /\ clOp = "none" /\ clPc = "idle"
    /\ cdpUp = FALSE /\ clSpawns = 0 /\ clElapsed = 0 /\ clDaemon = NoDaemon
    /\ clOutcome = NoOutcome

FindIdle ==
    /\ fiQuery = <<>> /\ fiPc = "idle" /\ fiHigh = <<>> /\ fiExtreme = <<>>
    /\ fiOutcome = NoOutcome /\ fiPasses = <<>>

NormIdle ==
    /\ noKind = "none" /\ noParsed = [type |-> "undefined"] /\ noPc = "idle"
    /\ noResult = [type |-> "undefined"]

CoIdle ==
    /\ coOps = <<>> /\ coPc = <<>> /\ coUp = FALSE /\ coBrowsers = 0
    /\ coElapsed = <<>> /\ coDaemon = <<>> /\ coWorkers = <<>>

IdleButGrid == BridgeIdle /\ LabelsIdle /\ ExecIdle /\ ScanIdle /\ ShotIdle /\ ClientIdle /\ FindIdle /\ NormIdle /\ CoIdle
IdleButBridge == GridIdle /\ LabelsIdle /\ ExecIdle /\ ScanIdle /\ ShotIdle /\ ClientIdle /\ FindIdle /\ NormIdle /\ CoIdle
IdleButLabels == GridIdle /\ BridgeIdle /\ ExecIdle /\ ScanIdle /\ ShotIdle /\ ClientIdle /\ FindIdle /\ NormIdle /\ CoIdle
IdleButExec == GridIdle /\ BridgeIdle /\ LabelsIdle /\ ScanIdle /\ ShotIdle /\ ClientIdle /\ FindIdle /\ NormIdle /\ CoIdle
IdleButScan == GridIdle /\ BridgeIdle /\ LabelsIdle /\ ExecIdle /\ ShotIdle /\ ClientIdle /\ FindIdle /\ NormIdle /\ CoIdle
IdleButShot == GridIdle /\ BridgeIdle /\ LabelsIdle /\ ExecIdle /\ ScanIdle /\ ClientIdle /\ FindIdle /\ NormIdle /\ CoIdle
IdleButClient == GridIdle /\ BridgeIdle /\ LabelsIdle /\ ExecIdle /\ ScanIdle /\ ShotIdle /\ FindIdle /\ NormIdle /\ CoIdle
IdleButFind ==
    /\ GridIdle /\ BridgeIdle /\ LabelsIdle /\ ExecIdle /\ ScanIdle /\ ShotIdle
    /\ ClientIdle /\ NormIdle /\ CoIdle
IdleButNorm ==
    /\ GridIdle /\ BridgeIdle /\ LabelsIdle /\ ExecIdle /\ ScanIdle /\ ShotIdle
    /\ ClientIdle /\ FindIdle /\ CoIdle
IdleButCo ==
    /\ GridIdle /\ BridgeIdle /\ LabelsIdle /\ ExecIdle /\ ScanIdle /\ ShotIdle
    /\ ClientIdle /\ FindIdle /\ NormIdle

\*IDLE-END

\* ------------------------------------------------------------------------
\* Characters
\* ------------------------------------------------------------------------
SPACE == 32
\* tab, line feed, carriage return, space
IsWhitespace(c) == c \in {9, 10, 13, 32}
IsUpper(c) == c \in 65..90
IsLower(c) == c \in 97..122
IsDigit(c) == c \in 48..57

\* String.prototype.trim on a character sequence
RECURSIVE trimLeft(_)
trimLeft(s) ==
    IF s # <<>> /\ IsWhitespace(Head(s)) THEN trimLeft(Tail(s)) ELSE s

RECURSIVE trimRight(_)
trimRight(s) ==
    IF s # <<>> /\ IsWhitespace(s[Len(s)]) THEN trimRight(SubSeq(s, 1, Len(s) - 1)) ELSE s

trim(s) == trimRight(trimLeft(s))

\* String.prototype.toLowerCase (ASCII)
toLowerCase(s) == [i \in DOMAIN s |-> IF IsUpper(s[i]) THEN s[i] + 32 ELSE s[i]]

\* String.prototype.toUpperCase (ASCII)
toUpperCase(s) == [i \in DOMAIN s |-> IF IsLower(s[i]) THEN s[i] - 32 ELSE s[i]]

\* Number -> decimal string, as a template literal renders a non-negative integer
RECURSIVE numToString(_)
numToString(n) ==
    IF n < 10 THEN <<48 + n>> ELSE numToString(n \div 10) \o <<48 + (n % 10)>>

\* Number.parseInt(text, 10) on a sequence of digits
RECURSIVE parseInt(_)
parseInt(digits) ==
    IF digits = <<>> THEN 0
    ELSE parseInt(SubSeq(digits, 1, Len(digits) - 1)) * 10 + (digits[Len(digits)] - 48)

\* ------------------------------------------------------------------------
\* colLabel: zero-based column index -> spreadsheet column letters
\* ------------------------------------------------------------------------
RECURSIVE colLabelLoop(_, _)
colLabelLoop(i, label) ==
    IF i >= 0 THEN colLabelLoop((i \div 26) - 1, <<65 + (i % 26)>> \o label)
    ELSE label

colLabel(index) == colLabelLoop(index, <<>>)

\* the cell label drawn on the overlay: `${colLabel(col)}${row + 1}`
cellLabel(col, row) == colLabel(col) \o numToString(row + 1)

\* ------------------------------------------------------------------------
\* parseCell: label -> zero-based {col, row}, or an error
\* ------------------------------------------------------------------------
\* length of the leading [A-Z]+ run
RECURSIVE upperPrefixLen(_)
upperPrefixLen(s) ==
    IF s # <<>> /\ IsUpper(Head(s)) THEN 1 + upperPrefixLen(Tail(s)) ELSE 0

\* /^([A-Z]+)(\d+)$/ : the two captured groups, or no match
cellMatch(s) ==
    LET k == upperPrefixLen(s)
        rest == SubSeq(s, k + 1, Len(s))
    IN IF k >= 1 /\ rest # <<>> /\ \A i \in DOMAIN rest : IsDigit(rest[i])
       THEN [matched |-> TRUE, letters |-> SubSeq(s, 1, k), digits |-> rest]
       ELSE [matched |-> FALSE, letters |-> <<>>, digits |-> <<>>]

\* a plausible slip: letters decoded as zero-based digits (A=0)
RECURSIVE parseColZeroBased(_)
parseColZeroBased(letters) ==
    IF letters = <<>> THEN 0
    ELSE parseColZeroBased(SubSeq(letters, 1, Len(letters) - 1)) * 26
         + (letters[Len(letters)] - 65)

\* col = col * 26 + (charCode - 64), left to right
RECURSIVE parseCol(_)
parseCol(letters) ==
    IF letters = <<>> THEN 0
    ELSE parseCol(SubSeq(letters, 1, Len(letters) - 1)) * 26
         + (letters[Len(letters)] - 64)

\* a parseCell that does not look at the row number
parseCellAnyRow(input) ==
    LET m == cellMatch(toUpperCase(trim(input)))
    IN IF ~m.matched
       THEN [ok |-> FALSE, error |-> "Invalid grid coordinate", col |-> -1, row |-> -1]
       ELSE [ok |-> TRUE, error |-> "", col |-> parseCol(m.letters) - 1,
             row |-> parseInt(m.digits) - 1]

parseCell(input) ==
    LET trimmed == toUpperCase(trim(input))
        m == cellMatch(trimmed)
    IN IF ~m.matched
       THEN [ok |-> FALSE, error |-> "Invalid grid coordinate", col |-> -1, row |-> -1]
       ELSE LET col == parseCol(m.letters)
                row == parseInt(m.digits)
            IN IF row <= 0
               THEN [ok |-> FALSE, error |-> "Invalid row index in coordinate",
                     col |-> -1, row |-> -1]
               ELSE [ok |-> TRUE, error |-> "", col |-> col - 1, row |-> row - 1]

\* ------------------------------------------------------------------------
\* Inputs of the grid specification
\* ------------------------------------------------------------------------
LabelLetters == {65, 66, 76, 90, 97}    \* A B L Z a
LabelDigits == {48, 49, 56, 57}         \* 0 1 8 9

SeqsUpTo(S, n) == UNION {[1..k -> S] : k \in 0..n}

LabelInputs ==
    {pad \o l \o d \o pad :
        l \in SeqsUpTo(LabelLetters, MaxColLetters),
        d \in SeqsUpTo(LabelDigits, MaxRowDigits),
        pad \in {<<>>, <<SPACE>>}}

CoordInputs == [col : 0..MaxCol, row : 0..MaxRow]

\* a label of the strict pattern [A-Z]+[1-9][0-9]*
IsStrictLabel(s) ==
    LET m == cellMatch(s)
    IN m.matched /\ m.digits[1] # 48

GridInit ==
    /\ IdleButGrid
    /\ gridMode \in {"fromLabel", "fromCoord"}
    /\ gridInput \in (IF gridMode = "fromLabel" THEN LabelInputs ELSE CoordInputs)
    /\ gridPc = "start"
    /\ gridCoord = NoCoord
    /\ gridLabel = <<>>

\* parseCell applied to the input label
ParseInput ==
    /\ gridMode = "fromLabel" /\ gridPc = "start"
    /\ gridCoord' = parseCell(gridInput)
    /\ gridPc' = IF gridCoord'.ok THEN "mid" ELSE "done"
    /\ UNCHANGED <<gridMode, gridInput, gridLabel>>
    /\ UNCHANGED notGrid

\* the coordinate parsed from the input rendered back as a label
RelabelParsed ==
    /\ gridMode = "fromLabel" /\ gridPc = "mid"
    /\ gridLabel' = cellLabel(gridCoord.col, gridCoord.row)
    /\ gridPc' = "done"
    /\ UNCHANGED <<gridMode, gridInput, gridCoord>>
    /\ UNCHANGED notGrid

\* the input coordinate rendered as a label
LabelInput ==
    /\ gridMode = "fromCoord" /\ gridPc = "start"
    /\ gridLabel' = cellLabel(gridInput.col, gridInput.row)
    /\ gridPc' = "mid"
    /\ UNCHANGED <<gridMode, gridInput, gridCoord>>
    /\ UNCHANGED notGrid

\* parseCell applied to the rendered label
ParseLabelled ==
    /\ gridMode = "fromCoord" /\ gridPc = "mid"
    /\ gridCoord' = parseCell(gridLabel)
    /\ gridPc' = "done"
    /\ UNCHANGED <<gridMode, gridInput, gridLabel>>
    /\ UNCHANGED notGrid

GridNext == ParseInput \/ RelabelParsed \/ LabelInput \/ ParseLabelled

SpecGrid == GridInit /\ [][GridNext]_vars

\* C1: parseCell and colLabel are mutually inverse: a label of the pattern
\* [A-Z]+[1-9][0-9]* parses to a coordinate whose rendering (colLabel(col)
\* followed by row + 1) is the label again, and the rendering of any
\* coordinate (col >= 0, row >= 0) parses back to that coordinate.
C1_RoundTrip ==
    /\ (gridMode = "fromLabel" /\ IsStrictLabel(gridInput) /\ gridPc # "start")
          => gridCoord.ok
    /\ (gridMode = "fromLabel" /\ IsStrictLabel(gridInput) /\ gridPc = "done")
          => gridLabel = gridInput
    /\ (gridMode = "fromCoord" /\ gridPc = "done")
          => /\ gridCoord.ok
             /\ gridCoord.col = gridInput.col
             /\ gridCoord.row = gridInput.row

\* the label AL8 has been parsed to (37, 7) and rendered back
C1_Witness ==
    /\ gridMode = "fromLabel" /\ gridPc = "done"
    /\ gridInput = <<65, 76, 56>>
    /\ gridCoord.col = 37 /\ gridCoord.row = 7
    /\ gridLabel = <<65, 76, 56>>

\* ========================================================================
\* The CDP bridge: runBridge in the parent, main() in the worker process
\* ========================================================================
BridgeOps == {"navigate", "execute", "scanZones", "gridScreenshot"}

\* worker positions at which the process is still alive
WorkerAlive == {"start", "fetched", "connected", "closing", "failing", "resolved"}

BridgeInit == BridgeIdle /\ IdleButBridge

\* runBridge: spawn('node', [BRIDGE_PATH, task]) and arm the timer.  The
\* spawn itself may fail, in which case the child emits 'error'.
RunBridge ==
    /\ brPc = "idle"
    /\ \E op \in BridgeOps, spawned \in BOOLEAN :
        /\ brOp' = op
        /\ wkPc' = IF spawned THEN "start" ELSE "spawnFailed"
    /\ brPc' = "waiting"
    /\ brTimer' = "armed"
    /\ UNCHANGED <<brSettled, brOutcome, brStdout, brStderr, brKills, brEvents>>
    /\ UNCHANGED <<wkThrown, wkOutPipe, wkErrPipe, wkResults, wkErrors, wkExit>>
    /\ UNCHANGED notBridge

\* a timer callback that forgets to reject and to kill
BridgeTimeoutSilent ==
    /\ brTimer = "armed"
    /\ brTimer' = "fired"
    /\ UNCHANGED <<brPc, brOp, brSettled, brOutcome, brStdout, brStderr, brKills, brEvents>>
    /\ UNCHANGED workerVars
    /\ UNCHANGED notBridge

\* the setTimeout callback, BRIDGE_TIMEOUT_MS after the spawn
BridgeTimeout ==
    /\ brTimer = "armed"
    /\ brTimer' = "fired"
    /\ IF brSettled
       THEN UNCHANGED <<brSettled, brKills, brOutcome, workerVars>>
       ELSE /\ brSettled' = TRUE
            /\ brKills' = brKills + 1
            \* child.kill('SIGKILL'): ends the process unless it is already gone
            /\ IF wkPc \in WorkerAlive
               THEN /\ wkPc' = "killed" /\ wkExit' = 137
                    /\ UNCHANGED <<wkThrown, wkOutPipe, wkErrPipe, wkResults, wkErrors>>
               ELSE UNCHANGED workerVars
            /\ brOutcome' = Rejected("CDP bridge timed out", brOp)
    /\ UNCHANGED <<brPc, brOp, brStdout, brStderr, brEvents>>
    /\ UNCHANGED notBridge

\* settle(handler): first caller wins, clears the timer
\* child.on('error'): the spawn failed
ChildError ==
    /\ wkPc = "spawnFailed" /\ "error" \notin brEvents
    /\ brEvents' = brEvents \cup {"error"}
    /\ IF brSettled
       THEN UNCHANGED <<brSettled, brTimer, brOutcome>>
       ELSE /\ brSettled' = TRUE
            /\ brTimer' = "cleared"
            /\ brOutcome' = Rejected("spawn error", "none")
    /\ UNCHANGED <<brPc, brOp, brStdout, brStderr, brKills>>
    /\ UNCHANGED workerVars
    /\ UNCHANGED notBridge

\* child.stdout.on('data')
StdoutData ==
    /\ wkOutPipe # <<>>
    /\ brStdout' = Append(brStdout, Head(wkOutPipe))
    /\ wkOutPipe' = Tail(wkOutPipe)
    /\ UNCHANGED <<brPc, brOp, brSettled, brTimer, brOutcome, brStderr, brKills, brEvents>>
    /\ UNCHANGED <<wkPc, wkThrown, wkErrPipe, wkResults, wkErrors, wkExit>>
    /\ UNCHANGED notBridge

\* child.stderr.on('data')
StderrData ==
    /\ wkErrPipe # <<>>
    /\ brStderr' = Append(brStderr, Head(wkErrPipe))
    /\ wkErrPipe' = Tail(wkErrPipe)
    /\ UNCHANGED <<brPc, brOp, brSettled, brTimer, brOutcome, brStdout, brKills, brEvents>>
    /\ UNCHANGED <<wkPc, wkThrown, wkOutPipe, wkResults, wkErrors, wkExit>>
    /\ UNCHANGED notBridge

\* the value the 'close' handler settles with
CloseResult(code, out, err, op) ==
    IF code # 0
    THEN Rejected(IF err # <<>> THEN Head(err)
                  ELSE IF out # <<>> THEN Head(out)
                  ELSE "CDP bridge failed with exit code", "none")
    ELSE IF out = <<>> THEN Resolved("empty")
    ELSE IF Len(out) = 1 THEN Resolved(op)
    ELSE Rejected("Failed to parse bridge output", "none")

\* the process is gone and 'close' is due: it ended or was killed, or the
\* spawn failed and 'error' has been emitted
CloseDue ==
    \/ wkPc \in {"exited", "killed"}
    \/ (wkPc = "spawnFailed" /\ "error" \in brEvents)

\* a 'close' handler that rejects or resolves without consulting `settled`
ChildCloseUnguarded ==
    /\ CloseDue /\ "close" \notin brEvents
    /\ wkOutPipe = <<>> /\ wkErrPipe = <<>>
    /\ brEvents' = brEvents \cup {"close"}
    /\ brSettled' = TRUE
    /\ brTimer' = IF brTimer = "armed" THEN "cleared" ELSE brTimer
    /\ brOutcome' = CloseResult(wkExit, brStdout, brStderr, brOp)
    /\ UNCHANGED <<brPc, brOp, brStdout, brStderr, brKills>>
    /\ UNCHANGED workerVars
    /\ UNCHANGED notBridge

\* child.on('close'): the process has ended and its stdio streams are drained
ChildClose ==
    /\ CloseDue /\ "close" \notin brEvents
    /\ wkOutPipe = <<>> /\ wkErrPipe = <<>>
    /\ brEvents' = brEvents \cup {"close"}
    /\ IF brSettled
       THEN UNCHANGED <<brSettled, brTimer, brOutcome>>
       ELSE /\ brSettled' = TRUE
            /\ brTimer' = "cleared"
            /\ brOutcome' = CloseResult(wkExit, brStdout, brStderr, brOp)
    /\ UNCHANGED <<brPc, brOp, brStdout, brStderr, brKills>>
    /\ UNCHANGED workerVars
    /\ UNCHANGED notBridge

\* ---- the worker: main() of the bridge script ----
\* fetchJson(`${cdpUrl}/json/version`)
WorkerFetchVersion ==
    /\ wkPc = "start"
    /\ \E ok \in BOOLEAN :
        IF ok THEN wkPc' = "fetched" /\ UNCHANGED wkThrown
        ELSE wkPc' = "failing" /\ wkThrown' = "Failed request"
    /\ UNCHANGED <<wkOutPipe, wkErrPipe, wkResults, wkErrors, wkExit>>
    /\ UNCHANGED parentVars
    /\ UNCHANGED notBridge

\* chromium.connectOverCDP(wsEndpoint, { timeout: 12000 })
WorkerConnect ==
    /\ wkPc = "fetched"
    /\ \E ok \in BOOLEAN :
        IF ok THEN wkPc' = "connected" /\ UNCHANGED wkThrown
        ELSE wkPc' = "failing" /\ wkThrown' = "connect failed"
    /\ UNCHANGED <<wkOutPipe, wkErrPipe, wkResults, wkErrors, wkExit>>
    /\ UNCHANGED parentVars
    /\ UNCHANGED notBridge

\* the try block: context lookup, the op, process.stdout.write(JSON.stringify(result))
WorkerRunOp ==
    /\ wkPc = "connected"
    /\ \E r \in {"ok", "No browser context", "op failed"} :
        IF r = "ok"
        THEN /\ wkOutPipe' = Append(wkOutPipe, "result")
             /\ wkResults' = wkResults + 1
             /\ UNCHANGED wkThrown
        ELSE /\ wkThrown' = r
             /\ UNCHANGED <<wkOutPipe, wkResults>>
    /\ wkPc' = "closing"
    /\ UNCHANGED <<wkErrPipe, wkErrors, wkExit>>
    /\ UNCHANGED parentVars
    /\ UNCHANGED notBridge

\* finally { await browser.close() }: an error thrown here replaces the pending one
WorkerCloseBrowser ==
    /\ wkPc = "closing"
    /\ \E ok \in BOOLEAN :
        IF ok
        THEN /\ wkPc' = IF wkThrown = "none" THEN "resolved" ELSE "failing"
             /\ UNCHANGED wkThrown
        ELSE /\ wkPc' = "failing"
             /\ wkThrown' = "browser.close failed"
    /\ UNCHANGED <<wkOutPipe, wkErrPipe, wkResults, wkErrors, wkExit>>
    /\ UNCHANGED parentVars
    /\ UNCHANGED notBridge

\* main().catch: process.stderr.write(error.stack); process.exit(1)
WorkerCatch ==
    /\ wkPc = "failing"
    /\ wkErrPipe' = Append(wkErrPipe, wkThrown)
    /\ wkErrors' = wkErrors + 1
    /\ wkExit' = 1
    /\ wkPc' = "exited"
    /\ UNCHANGED <<wkThrown, wkOutPipe, wkResults>>
    /\ UNCHANGED parentVars
    /\ UNCHANGED notBridge

\* main() resolved: the process ends with exit code 0
WorkerExit ==
    /\ wkPc = "resolved"
    /\ wkExit' = 0
    /\ wkPc' = "exited"
    /\ UNCHANGED <<wkThrown, wkOutPipe, wkErrPipe, wkResults, wkErrors>>
    /\ UNCHANGED parentVars
    /\ UNCHANGED notBridge

BridgeNext ==
    \/ RunBridge \/ BridgeTimeout \/ ChildError \/ StdoutData \/ StderrData \/ ChildClose
    \/ WorkerFetchVersion \/ WorkerConnect \/ WorkerRunOp \/ WorkerCloseBrowser
    \/ WorkerCatch \/ WorkerExit

SpecBridge == BridgeInit /\ [][BridgeNext]_vars

\* the event loop runs a timer that is armed and not cleared
SpecBridgeFair == SpecBridge /\ WF_vars(BridgeTimeout)

\* C3: every runBridge call eventually settles; a timeout rejection kills the
\* worker with SIGKILL and names the requested op; when the worker closes or
\* errors first the timer is cancelled and the outcome is not a timeout.
C3_BridgeSettles ==
    /\ (brPc = "waiting") ~> brSettled
    /\ [](brTimer = "fired" =>
            /\ brOutcome = Rejected("CDP bridge timed out", brOp)
            /\ brOp \in BridgeOps
            /\ brKills = 1
            /\ wkPc \notin WorkerAlive)
    /\ []((brSettled /\ brTimer # "fired") =>
            /\ brTimer = "cleared"
            /\ brOutcome.kind # "pending"
            /\ brOutcome.error # "CDP bridge timed out"
            /\ brKills = 0)

\* a worker that was still running has been killed by the timeout
C3_Witness ==
    /\ brTimer = "fired" /\ wkPc = "killed" /\ brKills = 1
    /\ brOutcome = Rejected("CDP bridge timed out", brOp)

\* C35: the promise of runBridge is settled once, by the first of the timer,
\* the child's 'error' and the child's 'close': it is pending until then, and
\* no event after that changes the outcome, sends a kill or ends a process.
C35_SettledOnce ==
    [][/\ ~brSettled => brOutcome.kind = "pending"
       /\ (~brSettled /\ brSettled') =>
             /\ brOutcome'.kind # "pending"
             /\ \/ brTimer' = "fired" /\ brKills' = brKills + 1
                \/ brTimer' = "cleared" /\ brKills' = brKills
                               /\ brEvents' # brEvents
       /\ brSettled =>
             /\ brSettled' /\ brOutcome' = brOutcome /\ brKills' = brKills
             /\ brTimer' = brTimer
             /\ wkPc' = "killed" => wkPc = "killed"]_vars

\* the timeout killed the worker and rejected; the 'close' that followed
\* left the rejection and the kill count as they were
C35_Witness ==
    /\ brSettled /\ brTimer = "fired" /\ "close" \in brEvents
    /\ wkPc = "killed" /\ brKills = 1
    /\ brOutcome = Rejected("CDP bridge timed out", brOp)

\* C9: a worker run that ends by itself either wrote exactly one result object
\* to stdout and exited 0, or wrote an error to stderr and exited non-zero
\* without having written a result object.
C9_OneOutcome ==
    wkPc = "exited" =>
        \/ (wkExit = 0 /\ wkResults = 1 /\ wkErrors = 0)
        \/ (wkExit # 0 /\ wkErrors >= 1 /\ wkResults = 0)

\* ========================================================================
\* The labeling protocol: one model request, one retry on a bad response
\* ========================================================================
\* An error message is a sequence of fragments; a regular expression that
\* looks for a phrase matches when some fragment is that phrase.

\* String.prototype.toLowerCase on the fragments a response body may quote
lowerCase(fragment) ==
    CASE fragment = "Valid JSON Object" -> "valid json object"
      [] fragment = "valid JSON object" -> "valid json object"
      [] fragment = "returned no text content" -> "returned no text content"
      [] fragment = "Returned No Text Content" -> "returned no text content"
      [] OTHER -> fragment

\* ---- JSON.parse, as far as deciding what kind of value a text holds ----
\* (strings with the two-character escapes, integers, the three literals,
\* objects and arrays; positions are 1-based, 0 is "no parse")

\* the first position at or after i that holds no whitespace
RECURSIVE skipWs(_, _)
skipWs(s, i) ==
    IF i <= Len(s) /\ IsWhitespace(s[i]) THEN skipWs(s, i + 1) ELSE i

\* whether s holds the characters of w from position i on
startsWithAt(s, i, w) ==
    i + Len(w) - 1 <= Len(s) /\ SubSeq(s, i, i + Len(w) - 1) = w

\* the position after the string whose body starts at j (after the opening
\* quote)
RECURSIVE stringBodyEnd(_, _)
stringBodyEnd(s, j) ==
    IF j > Len(s) THEN 0
    ELSE IF s[j] = 34 THEN j + 1
    ELSE IF s[j] = 92
    THEN IF j + 1 <= Len(s) /\ s[j + 1] \in {34, 47, 92, 98, 102, 110, 114, 116}
         THEN stringBodyEnd(s, j + 2) ELSE 0
    ELSE IF s[j] < 32 THEN 0
    ELSE stringBodyEnd(s, j + 1)

stringEnd(s, i) ==
    IF i <= Len(s) /\ s[i] = 34 THEN stringBodyEnd(s, i + 1) ELSE 0

RECURSIVE digitsEnd(_, _)
digitsEnd(s, i) ==
    IF i <= Len(s) /\ IsDigit(s[i]) THEN digitsEnd(s, i + 1) ELSE i

numberEnd(s, i) ==
    LET d == IF i <= Len(s) /\ s[i] = 45 THEN i + 1 ELSE i
    IN IF d > Len(s) \/ ~IsDigit(s[d]) THEN 0
       ELSE IF s[d] = 48 THEN d + 1
       ELSE digitsEnd(s, d)

RECURSIVE valueEnd(_, _)
RECURSIVE membersEnd(_, _)
RECURSIVE elementsEnd(_, _)

\* the position after the value that starts at i
valueEnd(s, i) ==
    IF i = 0 \/ i > Len(s) THEN 0
    ELSE IF s[i] = 123
    THEN LET j == skipWs(s, i + 1)
         IN IF j <= Len(s) /\ s[j] = 125 THEN j + 1 ELSE membersEnd(s, j)
    ELSE IF s[i] = 91
    THEN LET j == skipWs(s, i + 1)
         IN IF j <= Len(s) /\ s[j] = 93 THEN j + 1 ELSE elementsEnd(s, j)
    ELSE IF s[i] = 34 THEN stringEnd(s, i)
    ELSE IF s[i] = 45 \/ IsDigit(s[i]) THEN numberEnd(s, i)
    ELSE IF startsWithAt(s, i, <<116, 114, 117, 101>>) THEN i + 4
    ELSE IF startsWithAt(s, i, <<110, 117, 108, 108>>) THEN i + 4
    ELSE IF startsWithAt(s, i, <<102, 97, 108, 115, 101>>) THEN i + 5
    ELSE 0

\* "key": value, then a comma and more members or the closing brace
membersEnd(s, j) ==
    LET k == stringEnd(s, j)
    IN IF k = 0 THEN 0
       ELSE LET c == skipWs(s, k)
            IN IF c > Len(s) \/ s[c] # 58 THEN 0
               ELSE LET v == valueEnd(s, skipWs(s, c + 1))
                    IN IF v = 0 THEN 0
                       ELSE LET e == skipWs(s, v)
                            IN IF e > Len(s) THEN 0
                               ELSE IF s[e] = 125 THEN e + 1
                               ELSE IF s[e] = 44 THEN membersEnd(s, skipWs(s, e + 1))
                               ELSE 0

\* value, then a comma and more elements or the closing bracket
elementsEnd(s, j) ==
    LET v == valueEnd(s, j)
    IN IF v = 0 THEN 0
       ELSE LET e == skipWs(s, v)
            IN IF e > Len(s) THEN 0
               ELSE IF s[e] = 93 THEN e + 1
               ELSE IF s[e] = 44 THEN elementsEnd(s, skipWs(s, e + 1))
               ELSE 0

\* JSON.parse(s) and isRecord: "object" for a record, "array", "scalar" for any
\* other value, "invalid" when JSON.parse throws
jsonKind(s) ==
    LET i == skipWs(s, 1)
        e == valueEnd(s, i)
    IN IF i > Len(s) \/ e = 0 \/ skipWs(s, e) # Len(s) + 1 THEN "invalid"
       ELSE IF s[i] = 123 THEN "object"
       ELSE IF s[i] = 91 THEN "array"
       ELSE "scalar"

\* ---- /```(?:json)?\s*([\s\S]*?)```/i ----
FENCE == <<96, 96, 96>>

\* the first position at or after i where a fence starts, 0 when there is none
RECURSIVE findFence(_, _)
findFence(s, i) ==
    IF i + 2 > Len(s) THEN 0
    ELSE IF startsWithAt(s, i, FENCE) THEN i
    ELSE findFence(s, i + 1)

\* exec(): whether the expression matches, and its first group
codeFenceMatch(s) ==
    LET open == findFence(s, 1)
        afterOpen == open + 3
        afterTag == IF afterOpen + 3 <= Len(s)
                       /\ toLowerCase(SubSeq(s, afterOpen, afterOpen + 3))
                            = <<106, 115, 111, 110>>
                    THEN afterOpen + 4 ELSE afterOpen
        from == skipWs(s, afterTag)
        close == findFence(s, from)
    IN IF open = 0 \/ close = 0 THEN [matched |-> FALSE, group |-> <<>>]
       ELSE [matched |-> TRUE, group |-> SubSeq(s, from, close - 1)]

\* ---- the texts a model may answer with ----
SmallObject == <<123, 34, 97, 34, 58, 49, 125>>                  \* {"a":1}
EmptyObject == <<123, 125>>                                      \* {}
SmallArray == <<91, 49, 93>>                                     \* [1]
TagJson == <<106, 115, 111, 110>>                                \* json
fenced(tag, body) == FENCE \o tag \o <<10>> \o body \o <<10>> \o FENCE
\* {"a":"<inner>"}
objectWithString(inner) == <<123, 34, 97, 34, 58, 34>> \o inner \o <<34, 125>>

ModelTexts ==
    { SmallObject,
      <<SPACE>> \o SmallObject \o <<10>>,
      fenced(TagJson, SmallObject),
      fenced(<<>>, SmallObject),
      fenced(<<74, 83, 79, 78>>, EmptyObject),                   \* ```JSON
      <<111, 107, SPACE>> \o fenced(TagJson, SmallObject),       \* ok ```json...
      objectWithString(FENCE \o EmptyObject \o FENCE),           \* {"a":"```{}```"}
      objectWithString(FENCE \o SmallArray \o FENCE),            \* {"a":"```[1]```"}
      fenced(TagJson, objectWithString(FENCE)),                  \* fenced {"a":"```"}
      fenced(<<106, 115>>, SmallObject),                         \* ```js
      SmallArray,
      fenced(TagJson, SmallArray),
      <<110, 111>>,                                              \* no
      <<49>>,                                                    \* 1
      FENCE \o FENCE,
      FENCE \o TagJson \o SmallObject,                           \* fence never closed
      fenced(TagJson, <<110, 111>>) \o fenced(TagJson, SmallObject),
      <<123, 34, 97, 34, 58>> }                                  \* {"a":

\* the bodies a non-2xx response may carry, by the phrase they quote
ErrorBodies == {"quota exceeded", "Valid JSON Object", "returned no text content"}

\* what fetch() and the server can answer to one request
ModelResponses ==
    {[net |-> "failed"], [net |-> "aborted"]}
    \cup {[net |-> "ok", status |-> st, json |-> FALSE] : st \in {200, 500}}
    \cup {[net |-> "ok", status |-> st, json |-> TRUE, body |-> b] :
             st \in {400, 503}, b \in ErrorBodies}
    \cup {[net |-> "ok", status |-> 200, json |-> TRUE, hasText |-> FALSE]}
    \cup {[net |-> "ok", status |-> 200, json |-> TRUE, hasText |-> TRUE, text |-> t] :
             t \in ModelTexts}

\* what the server can answer when the request is not aborted
ServerAnswers == ModelResponses \ {[net |-> "aborted"]}

\* `${res.status}` for the statuses of ModelResponses
statusText(status) ==
    CASE status = 200 -> "200" [] status = 400 -> "400"
      [] status = 500 -> "500" [] status = 503 -> "503"
      [] OTHER -> "status"

Failure(kind, message) == [ok |-> FALSE, kind |-> kind, message |-> message]
Success(value) == [ok |-> TRUE, value |-> value]

\* options.requestTimeoutMs: absent, 0, negative, 5 s, 200 s
RequestTimeouts ==
    {[finite |-> FALSE, value |-> 0], [finite |-> TRUE, value |-> 0],
     [finite |-> TRUE, value |-> -5], [finite |-> TRUE, value |-> 5000],
     [finite |-> TRUE, value |-> 200000]}

\* how long the server may take to answer, in ms
Latencies == {100, 60000, 100000}

\* normalizeTimeoutMs: Number(value) when that is finite and positive
normalizeTimeoutMs(value, fallbackMs) ==
    IF ~value.finite \/ value.value <= 0 THEN fallbackMs ELSE value.value

\* `${timeoutMs}` for the timeouts of RequestTimeouts
timeoutText(ms) ==
    CASE ms = 90000 -> "90000" [] ms = 5000 -> "5000" [] ms = 200000 -> "200000"
      [] OTHER -> "timeout"

\* fetch() with the abort signal: the timer aborts a request the server has
\* not answered when it fires
fetchWithSignal(answer, latency, timeoutMs) ==
    IF latency >= timeoutMs THEN [net |-> "aborted"] ELSE answer

\* a clearTimeout that runs only when the request returned
clearOnReturn(result, cleared) == IF result.ok THEN cleared + 1 ELSE cleared

\* finally { clearTimeout(timeout) }
clearInFinally(result, cleared) == cleared + 1

\* geminiGenerateContent: fetch, res.json(), then the res.ok check
geminiGenerateContent(resp) ==
    IF resp.net = "aborted"
    THEN Failure("timeout",
                 <<"Gemini request timed out after ", timeoutText(laTimeoutMs), "ms.">>)
    ELSE IF resp.net = "failed" THEN Failure("network", <<"fetch failed">>)
    ELSE IF ~resp.json THEN Failure("body", <<"Unexpected token">>)
    ELSE IF resp.status \notin 200..299
    THEN Failure("http", <<"Gemini API error ", statusText(resp.status), ": ", resp.body>>)
    ELSE Success(resp)

\* extractGeminiText: the joined text parts, or the no-text error
extractGeminiText(data) ==
    IF ~data.hasText
    THEN Failure("empty", <<"Gemini ", "returned no text content", ": ">>)
    ELSE Success(data.text)

\* parseJsonObject: the group of the fence match (when it is not empty) is put
\* in front of the trimmed text; the first candidate that parses to a record
\* is returned (a parsed object is written as the text it was parsed from)
parseJsonObject(text) ==
    LET trimmed == trim(text)
        m == codeFenceMatch(trimmed)
        candidates == IF m.matched /\ m.group # <<>>
                      THEN <<trim(m.group), trimmed>> ELSE <<trimmed>>
        hits == {i \in DOMAIN candidates : jsonKind(candidates[i]) = "object"}
    IN IF hits = {}
       THEN Failure("malformed",
                    <<"Gemini response was not ", "valid JSON object", ". Raw response: ">>)
       ELSE Success(candidates[CHOOSE i \in hits : \A j \in hits : i <= j])

\* one attempt: request, text extraction, parse, normalisation
analysisAttempt(resp) ==
    LET data == geminiGenerateContent(resp)
    IN IF ~data.ok THEN data
       ELSE LET text == extractGeminiText(data.value)
            IN IF ~text.ok THEN text
               ELSE parseJsonObject(text.value)

\* a retry test that forgets the no-text failure
shouldRetryJsonOnly(failure) ==
    \E i \in DOMAIN failure.message :
        lowerCase(failure.message[i]) = "valid json object"

\* /valid JSON object|returned no text content/i.test(String(error))
shouldRetry(failure) ==
    \E i \in DOMAIN failure.message :
        lowerCase(failure.message[i]) \in {"valid json object", "returned no text content"}

\* the request bodies: temperature 0.1 and the plain prompt, then temperature
\* 0.0 and the compact prompt (temperatures in tenths)
FirstRequest(kind) == [analysis |-> kind, temperatureTenths |-> 1, compactRetry |-> FALSE]
RetryRequest(kind) == [analysis |-> kind, temperatureTenths |-> 0, compactRetry |-> TRUE]

LabelsInit == LabelsIdle /\ IdleButLabels

\* runLabelsAnalysis / runOverviewAnalysis is called: the first request goes out
StartAnalysis ==
    /\ laPc = "idle"
    /\ \E kind \in {"labels", "overview"}, requestTimeoutMs \in RequestTimeouts :
        /\ laKind' = kind
        /\ laRequests' = <<FirstRequest(kind)>>
        /\ laRequestTimeoutMs' = requestTimeoutMs
        /\ laTimeoutMs' = normalizeTimeoutMs(requestTimeoutMs, GEMINI_REQUEST_TIMEOUT_MS)
    /\ laTimersSet' = 1
    /\ laPc' = "first"
    /\ UNCHANGED <<laResponses, laOutcome, laLatencies, laTimersCleared>>
    /\ UNCHANGED notLabels

\* the try block ends: success, or the catch decides on the retry
FirstResponse ==
    /\ laPc = "first"
    /\ \E answer \in ServerAnswers, latency \in Latencies :
        LET resp == fetchWithSignal(answer, latency, laTimeoutMs)
            r == analysisAttempt(resp)
        IN /\ laResponses' = Append(laResponses, resp)
           /\ laLatencies' = Append(laLatencies, latency)
           /\ laTimersCleared' = clearInFinally(geminiGenerateContent(resp), laTimersCleared)
           /\ IF r.ok
              THEN /\ laOutcome' = [kind |-> "ok", value |-> r.value]
                   /\ laPc' = "done"
                   /\ UNCHANGED <<laRequests, laTimersSet>>
              ELSE IF ~shouldRetry(r)
              THEN /\ laOutcome' = [kind |-> "error", error |-> r]
                   /\ laPc' = "done"
                   /\ UNCHANGED <<laRequests, laTimersSet>>
              ELSE /\ laRequests' = Append(laRequests, RetryRequest(laKind))
                   /\ laTimersSet' = laTimersSet + 1
                   /\ laPc' = "retry"
                   /\ UNCHANGED laOutcome
    /\ UNCHANGED <<laKind, laRequestTimeoutMs, laTimeoutMs>>
    /\ UNCHANGED notLabels

\* the retry's result is the analysis' result, whatever it is
RetryResponse ==
    /\ laPc = "retry"
    /\ \E answer \in ServerAnswers, latency \in Latencies :
        LET resp == fetchWithSignal(answer, latency, laTimeoutMs)
            r == analysisAttempt(resp)
        IN /\ laResponses' = Append(laResponses, resp)
           /\ laLatencies' = Append(laLatencies, latency)
           /\ laTimersCleared' = clearInFinally(geminiGenerateContent(resp), laTimersCleared)
           /\ laOutcome' = IF r.ok THEN [kind |-> "ok", value |-> r.value]
                           ELSE [kind |-> "error", error |-> r]
    /\ laPc' = "done"
    /\ UNCHANGED <<laKind, laRequests, laRequestTimeoutMs, laTimeoutMs, laTimersSet>>
    /\ UNCHANGED notLabels

LabelsNext == StartAnalysis \/ FirstResponse \/ RetryResponse

SpecLabels == LabelsInit /\ [][LabelsNext]_vars

\* the first response came back without text or without a JSON object
FirstResponseBad ==
    /\ Len(laResponses) >= 1
    /\ LET resp == laResponses[1]
       IN /\ resp.net = "ok" /\ resp.json /\ resp.status \in 200..299
          /\ \/ ~resp.hasText
             \/ /\ resp.hasText
                /\ jsonKind(trim(resp.text)) # "object"
                /\ LET m == codeFenceMatch(trim(resp.text))
                   IN ~(m.matched /\ jsonKind(trim(m.group)) = "object")

\* C4: when the first model response has no text or holds no JSON object,
\* exactly one further request is made, at temperature 0 with the compact
\* prompt; a failure of that second request is the analysis' failure; and no
\* analysis issues more than two requests.
C4_RetryOnce ==
    /\ Len(laRequests) <= 2
    /\ FirstResponseBad =>
          /\ Len(laRequests) = 2
          /\ laRequests[2].temperatureTenths = 0
          /\ laRequests[2].compactRetry
          /\ laRequests[2].analysis = laKind
    /\ (FirstResponseBad /\ laPc = "done" /\ ~analysisAttempt(laResponses[2]).ok) =>
          laOutcome = [kind |-> "error", error |-> analysisAttempt(laResponses[2])]

\* a text-less first response was retried and the retry timed out
C4_Witness ==
    /\ laPc = "done" /\ Len(laRequests) = 2 /\ Len(laResponses) = 2
    /\ laResponses[1].net = "ok" /\ laResponses[1].json /\ laResponses[1].status = 200
    /\ ~laResponses[1].hasText
    /\ laResponses[2].net = "aborted"
    /\ laOutcome.kind = "error" /\ laOutcome.error.kind = "timeout"

\* C5: a first request that fails in any other way than the no-text and the
\* no-JSON-object failures (HTTP error, network failure, timeout) is not
\* followed by a second request.
C5_OtherErrorsNotRetried ==
    (Len(laResponses) >= 1 /\ ~analysisAttempt(laResponses[1]).ok /\ ~FirstResponseBad)
        => Len(laRequests) = 1

\* the timeout the caller asked for: requestTimeoutMs when that is a positive
\* number, 90000 otherwise
RequestedTimeout ==
    IF laRequestTimeoutMs.finite /\ laRequestTimeoutMs.value > 0
    THEN laRequestTimeoutMs.value ELSE 90000

TimedOut == Failure("timeout",
                    <<"Gemini request timed out after ", timeoutText(RequestedTimeout), "ms.">>)

\* C23: a model request the server has not answered when its timeout
\* (requestTimeoutMs, or 90000 ms when that is absent or invalid) expires is
\* aborted and fails with the timeout error, which no other failure produces
\* and which is not retried; every timer set has been cleared when the request
\* is over, however it ended.
C23_TimeoutCancels ==
    /\ \A i \in DOMAIN laResponses :
          /\ (laLatencies[i] >= RequestedTimeout) <=> (laResponses[i].net = "aborted")
          /\ laResponses[i].net = "aborted" =>
                /\ analysisAttempt(laResponses[i]) = TimedOut
                /\ ~shouldRetry(TimedOut)
                /\ Len(laRequests) = i
                /\ laPc = "done" /\ laOutcome = [kind |-> "error", error |-> TimedOut]
          /\ (laResponses[i].net # "aborted" /\ ~analysisAttempt(laResponses[i]).ok) =>
                /\ analysisAttempt(laResponses[i]).kind # "timeout"
                /\ analysisAttempt(laResponses[i]).message[1] # TimedOut.message[1]
    /\ laPc \in {"first", "retry"} => laTimersSet = laTimersCleared + 1
    /\ laPc = "done" => (laTimersSet = laTimersCleared /\ laTimersSet = Len(laRequests))

\* no timeout was given, the server took 100 s: aborted after 90 s, and the
\* timer was cleared
C23_Witness ==
    /\ laPc = "done" /\ ~laRequestTimeoutMs.finite
    /\ laLatencies = <<100000>> /\ laResponses = <<[net |-> "aborted"]>>
    /\ laOutcome = [kind |-> "error", error |-> TimedOut]
    /\ laTimeoutMs = 90000 /\ laTimersSet = 1 /\ laTimersCleared = 1

\* C24: every model response with a status outside 2xx, whatever its body
\* looks like, fails the request with an error that carries the status and
\* the body; every 2xx response with a JSON body is a success of the request.
C24_NonOkCarriesStatus ==
    \A i \in DOMAIN laResponses :
        laResponses[i].net = "ok" =>
            /\ laResponses[i].status \notin 200..299 =>
                  /\ geminiGenerateContent(laResponses[i]).kind = "http"
                  /\ geminiGenerateContent(laResponses[i]).message[2]
                        = statusText(laResponses[i].status)
                  /\ geminiGenerateContent(laResponses[i]).message[4]
                        = laResponses[i].body
            /\ (laResponses[i].status \in 200..299 /\ laResponses[i].json) =>
                  geminiGenerateContent(laResponses[i]).ok

\* the first response arrived with status 2xx, a JSON body and text parts
FirstTextArrived ==
    /\ Len(laResponses) >= 1
    /\ laResponses[1].net = "ok" /\ laResponses[1].json
    /\ laResponses[1].status \in 200..299 /\ laResponses[1].hasText

\* the position after the info string of a fenced block: after the line feed
\* that ends a first line of letters, else where the line started
RECURSIVE infoStringEnd(_, _)
infoStringEnd(s, i) ==
    IF i > Len(s) THEN 0
    ELSE IF s[i] = 10 THEN i + 1
    ELSE IF IsLower(s[i]) \/ IsUpper(s[i]) THEN infoStringEnd(s, i + 1)
    ELSE 0

\* the text is one fenced code block: what stands between its opening line
\* and its closing fence
FencedBody(text) ==
    LET t == trim(text)
        body == IF infoStringEnd(t, 4) = 0 THEN 4 ELSE infoStringEnd(t, 4)
    IN IF Len(t) >= 6 /\ startsWithAt(t, 1, FENCE) /\ startsWithAt(t, Len(t) - 2, FENCE)
       THEN [fenced |-> TRUE, body |-> trim(SubSeq(t, body, Len(t) - 3))]
       ELSE [fenced |-> FALSE, body |-> <<>>]

\* C21: when the text of the first model response is a fenced code block that
\* contains a valid JSON object, the analysis succeeds with the object inside
\* the fence after exactly one model request.
C21_FencedObjectNoRetry ==
    (FirstTextArrived /\ FencedBody(laResponses[1].text).fenced
        /\ jsonKind(FencedBody(laResponses[1].text).body) = "object") =>
        /\ laPc = "done" /\ Len(laRequests) = 1
        /\ laOutcome = [kind |-> "ok", value |-> FencedBody(laResponses[1].text).body]

\* C30: when the whole text of the model response is itself a valid JSON
\* object, that object is the result; the content of a fenced code block is
\* used only when the whole text does not parse to an object.
C30_WholeTextFirst ==
    (FirstTextArrived /\ jsonKind(trim(laResponses[1].text)) = "object") =>
        /\ laPc = "done" /\ Len(laRequests) = 1
        /\ laOutcome = [kind |-> "ok", value |-> trim(laResponses[1].text)]

\* ========================================================================
\* The action executor: runExecute and runWithOptionalNavigation
\* ========================================================================
MaxNavs == 2           \* navigations of the page followed during one action

\* String.prototype.includes
IsSubstring(needle, hay) ==
    \E i \in 1..(Len(hay) - Len(needle) + 1) : SubSeq(hay, i, i + Len(needle) - 1) = needle

\* new RegExp(pattern).test(url), for literal patterns with an optional leading ^
regexTest(pattern, url) ==
    IF pattern # <<>> /\ Head(pattern) = 94
    THEN Len(url) >= Len(pattern) - 1 /\ SubSeq(url, 1, Len(pattern) - 1) = Tail(pattern)
    ELSE IsSubstring(pattern, url)

HomeUrl == <<47, 97>>                        \* "/a"
Urls == {<<47, 97>>, <<47, 98>>}             \* "/a", "/b"

\* Number(value): finite or not, and the number
TimeoutInputs ==
    {[finite |-> FALSE, value |-> 0], [finite |-> TRUE, value |-> 0],
     [finite |-> TRUE, value |-> -1], [finite |-> TRUE, value |-> 5000]}

SelectorInputs == {<<>>, <<SPACE>>, <<35, 103>>}        \* absent or "", " ", "#g"
IncludesInputs == {<<>>, <<SPACE>>, <<97>>, <<98>>}      \* absent, " ", "a", "b"
MatchesInputs == {<<>>, <<94, 47, 98>>}                 \* absent, "^/b"

TextInputs == {<<>>, <<97, 98>>}                        \* absent or "", "ab"
FieldValues == {<<>>, <<120>>}                          \* an empty field, "x"

NavPolicies ==
    {[kind |-> "absent"], [kind |-> "false"], [kind |-> "true"]}
    \cup [kind : {"object"}, timeoutMs : TimeoutInputs,
          urlIncludes : IncludesInputs, urlMatches : MatchesInputs]

ExecActions ==
    [type : {"click", "submit"}, selector : SelectorInputs, waitForNavigation : NavPolicies]
    \cup [type : {"type"}, selector : SelectorInputs, text : TextInputs]
    \cup [type : {"select", "waitForSelector"}, selector : SelectorInputs]
    \cup [type : {"scroll", "navigate", "waitForLoadState", "hover", "Click", "undefined"}]
    \cup [type : {"waitForUrl"}, urlIncludes : IncludesInputs, urlMatches : MatchesInputs]

\* requireSelector: String(value || '').trim(), which must not be empty
requireSelector(value) ==
    LET selector == trim(value)
    IN [ok |-> selector # <<>>, selector |-> selector]

\* normalizeNavigationWait: null for a falsy policy, the defaults for `true`,
\* otherwise the policy with an invalid timeout replaced by the default
normalizeNavigationWait(value) ==
    IF value.kind \in {"absent", "false"}
    THEN [wait |-> FALSE, timeoutMs |-> 0, urlIncludes |-> <<>>, urlMatches |-> <<>>]
    ELSE IF value.kind = "true"
    THEN [wait |-> TRUE, timeoutMs |-> DEFAULT_WAIT_TIMEOUT_MS,
          urlIncludes |-> <<>>, urlMatches |-> <<>>]
    ELSE [wait |-> TRUE,
          timeoutMs |-> IF value.timeoutMs.finite /\ value.timeoutMs.value > 0
                        THEN value.timeoutMs.value ELSE DEFAULT_WAIT_TIMEOUT_MS,
          urlIncludes |-> trim(value.urlIncludes),
          urlMatches |-> trim(value.urlMatches)]

\* which page wait runWithOptionalNavigation starts for a wait config
waitCall(config) ==
    IF config.urlIncludes # <<>> THEN "waitForURL(includes)"
    ELSE IF config.urlMatches # <<>> THEN "waitForURL(matches)"
    ELSE "waitForNavigation"

\* whether the page being at `url` satisfies the URL condition of a wait config
urlConditionMet(config, url) ==
    IF config.urlIncludes # <<>> THEN IsSubstring(config.urlIncludes, url)
    ELSE IF config.urlMatches # <<>> THEN regexTest(config.urlMatches, url)
    ELSE FALSE

\* the page call a click or submit trigger makes
triggerCall(type) == IF type = "click" THEN "click" ELSE "$eval(submit)"

ExecError(e) == [kind |-> "error", error |-> e]
ExecOk == [kind |-> "ok"]

triggerError(trigger) ==
    IF trigger = "selectorRequired" THEN "selector is required." ELSE "trigger failed"

\* an executor that waits for the trigger alone
awaitTriggerOnly(wait, trigger) ==
    IF trigger \in {"failed", "selectorRequired"} THEN ExecError(triggerError(trigger))
    ELSE IF trigger = "ok" THEN ExecOk
    ELSE NoOutcome

\* await Promise.all([waitPromise, trigger()]), or await trigger() when no wait
\* was started: rejected by the first rejection, fulfilled when all are
awaitAll(wait, trigger) ==
    IF trigger \in {"failed", "selectorRequired"} THEN ExecError(triggerError(trigger))
    ELSE IF wait = "timedOut" THEN ExecError("NavigationTimeout")
    ELSE IF trigger = "ok" /\ wait \in {"none", "met"} THEN ExecOk
    ELSE NoOutcome

\* the promise keeps its first settlement
settleExec(current, wait, trigger) ==
    IF current # NoOutcome THEN current ELSE awaitAll(wait, trigger)

\* a dispatch whose last branch scrolls instead of throwing
sequentialCallsOrScroll(action) ==
    CASE action.type = "type" -> <<"fill('')", "type(text)">>
      [] action.type = "select" -> <<"selectOption">>
      [] action.type = "waitForSelector" -> <<"waitForSelector">>
      [] action.type = "waitForLoadState" -> <<"waitForLoadState">>
      [] action.type = "navigate" -> <<"goto">>
      [] action.type = "waitForUrl" ->
            IF trim(action.urlIncludes) # <<>> THEN <<"waitForURL(includes)">>
            ELSE <<"waitForURL(matches)">>
      [] OTHER -> <<"mouse.wheel">>

\* the page calls of the actions that run one call after another
sequentialCalls(action) ==
    CASE action.type = "type" -> <<"fill('')", "type(text)">>
      [] action.type = "select" -> <<"selectOption">>
      [] action.type = "waitForSelector" -> <<"waitForSelector">>
      [] action.type = "waitForLoadState" -> <<"waitForLoadState">>
      [] action.type = "scroll" -> <<"mouse.wheel">>
      [] action.type = "navigate" -> <<"goto">>
      [] action.type = "waitForUrl" ->
            IF trim(action.urlIncludes) # <<>> THEN <<"waitForURL(includes)">>
            ELSE <<"waitForURL(matches)">>
      [] OTHER -> <<>>

\* a fill('') that leaves the field as it is
pageCallEffectNoClear(call, value, action) ==
    IF call = "type(text)" THEN value \o action.text ELSE value

\* what a page call does to the target field: page.fill(selector, '') empties
\* it, page.type(selector, String(action.text || '')) types after its value
pageCallEffect(call, value, action) ==
    IF call = "fill('')" THEN <<>>
    ELSE IF call = "type(text)" THEN value \o action.text
    ELSE value

\* a runWithOptionalNavigation that calls the trigger before it starts the wait
startCallsTriggerFirst(waiting, config, trigger, type) ==
    (IF trigger = "running" THEN <<triggerCall(type)>> ELSE <<>>)
    \o (IF waiting THEN <<waitCall(config)>> ELSE <<>>)

\* the page calls made up to the first await: the wait is created, then
\* trigger() is called inside Promise.all
startCalls(waiting, config, trigger, type) ==
    (IF waiting THEN <<waitCall(config)>> ELSE <<>>)
    \o (IF trigger = "running" THEN <<triggerCall(type)>> ELSE <<>>)

ExecInit == ExecIdle /\ IdleButExec

\* runExecute is called with a click or submit action: up to the first await
ExecStartTrigger ==
    /\ exPc = "idle"
    /\ \E action \in ExecActions :
        /\ action.type \in {"click", "submit"}
        /\ exAction' = action
        /\ LET config == normalizeNavigationWait(action.waitForNavigation)
               sel == requireSelector(action.selector)
               \* submit checks the selector before runWithOptionalNavigation,
               \* click checks it inside the trigger
               early == action.type = "submit" /\ ~sel.ok
               waiting == config.wait /\ ~early
               wait == IF ~waiting THEN "none"
                       ELSE IF urlConditionMet(config, HomeUrl) THEN "met" ELSE "armed"
               trigger == IF early THEN "none"
                          ELSE IF ~sel.ok THEN "selectorRequired" ELSE "running"
           IN /\ exWait' = wait
              /\ exTimeoutMs' = IF waiting THEN config.timeoutMs ELSE 0
              /\ exTrigger' = trigger
              /\ exLog' = startCalls(waiting, config, trigger, action.type)
              /\ exOutcome' = IF early THEN ExecError("selector is required.")
                              ELSE settleExec(NoOutcome, wait, trigger)
    /\ exPc' = "running"
    /\ exUrl' = HomeUrl
    /\ UNCHANGED <<exSteps, exNavs, exField>>
    /\ UNCHANGED notExec

\* runExecute is called with any other action: up to the first page call
ExecStartSequential ==
    /\ exPc = "idle"
    /\ \E action \in ExecActions :
        /\ action.type \notin {"click", "submit"}
        /\ exAction' = action
        /\ IF action.type \in {"type", "select", "waitForSelector"}
              /\ ~requireSelector(action.selector).ok
           THEN exOutcome' = ExecError("selector is required.") /\ exSteps' = <<>>
           ELSE IF action.type = "waitForUrl"
                   /\ trim(action.urlIncludes) = <<>> /\ trim(action.urlMatches) = <<>>
           THEN /\ exOutcome' = ExecError("waitForUrl requires urlIncludes or urlMatches.")
                /\ exSteps' = <<>>
           ELSE IF sequentialCalls(action) = <<>>
           THEN exOutcome' = ExecError("Unknown action type") /\ exSteps' = <<>>
           ELSE exOutcome' = NoOutcome /\ exSteps' = sequentialCalls(action)
    /\ exPc' = "running"
    /\ exUrl' = HomeUrl
    /\ \E value \in FieldValues :
          exField' = IF exAction'.type = "type" THEN [before |-> value, value |-> value]
                     ELSE exField
    /\ UNCHANGED <<exWait, exTimeoutMs, exTrigger, exLog, exNavs>>
    /\ UNCHANGED notExec

\* the next page call of a sequential action is made and completes
ExecStep ==
    /\ exPc = "running" /\ exSteps # <<>>
    /\ exLog' = Append(exLog, Head(exSteps))
    /\ \E ok \in BOOLEAN :
        IF ok
        THEN /\ exSteps' = Tail(exSteps)
             /\ exOutcome' = IF Tail(exSteps) = <<>> THEN ExecOk ELSE NoOutcome
             /\ exField' = [exField EXCEPT
                               !.value = pageCallEffect(Head(exSteps), exField.value, exAction)]
        ELSE /\ exSteps' = <<>>
             /\ exOutcome' = ExecError("page call failed")
             /\ UNCHANGED exField
    /\ UNCHANGED <<exAction, exPc, exWait, exTimeoutMs, exTrigger, exUrl, exNavs>>
    /\ UNCHANGED notExec

\* the triggering page call completes
TriggerCompletes ==
    /\ exPc = "running" /\ exTrigger = "running"
    /\ \E ok \in BOOLEAN :
        /\ exTrigger' = IF ok THEN "ok" ELSE "failed"
        /\ exOutcome' = settleExec(exOutcome, exWait, exTrigger')
    /\ UNCHANGED <<exAction, exPc, exWait, exTimeoutMs, exSteps, exLog, exUrl, exNavs,
                   exField>>
    /\ UNCHANGED notExec

\* the page navigates (because of the trigger or of anything else); a
\* listening wait whose condition the navigation satisfies is met
PageNavigates ==
    /\ exPc = "running" /\ exNavs < MaxNavs
    /\ exAction.type \in {"click", "submit"}
    /\ \E url \in Urls :
        /\ exUrl' = url
        /\ LET config == normalizeNavigationWait(exAction.waitForNavigation)
           IN exWait' = IF exWait = "armed"
                           /\ (waitCall(config) = "waitForNavigation"
                               \/ urlConditionMet(config, url))
                        THEN "met" ELSE exWait
    /\ exNavs' = exNavs + 1
    /\ exOutcome' = settleExec(exOutcome, exWait', exTrigger)
    /\ UNCHANGED <<exAction, exPc, exTimeoutMs, exTrigger, exSteps, exLog, exField>>
    /\ UNCHANGED notExec

\* exTimeoutMs pass without the wait's condition being met
WaitTimesOut ==
    /\ exPc = "running" /\ exWait = "armed"
    /\ exWait' = "timedOut"
    /\ exOutcome' = settleExec(exOutcome, exWait', exTrigger)
    /\ UNCHANGED <<exAction, exPc, exTimeoutMs, exTrigger, exSteps, exLog, exUrl, exNavs,
                   exField>>
    /\ UNCHANGED notExec

ExecNext ==
    \/ ExecStartTrigger \/ ExecStartSequential \/ ExecStep
    \/ TriggerCompletes \/ PageNavigates \/ WaitTimesOut

SpecExec == ExecInit /\ [][ExecNext]_vars

\* the caller asked for a navigation wait
PolicyGiven == exAction.waitForNavigation.kind \in {"true", "object"}

\* the timeout the policy asks for: its timeoutMs when that is a positive
\* number, 30000 otherwise
PolicyTimeout ==
    LET p == exAction.waitForNavigation
    IN IF p.kind = "object" /\ p.timeoutMs.finite /\ p.timeoutMs.value > 0
       THEN p.timeoutMs.value ELSE 30000

\* C6: a click or submit with a navigation-wait policy starts the wait and the
\* trigger together and succeeds only when both completed: a wait that times
\* out fails execute even after the trigger succeeded, a failed trigger fails
\* execute, and the wait's timeout is the policy's or 30000 ms; without a
\* policy only the trigger runs and no wait is started.
C6_WaitAndTrigger ==
    (exPc = "running" /\ exAction.type \in {"click", "submit"}) =>
        /\ exOutcome = ExecOk =>
              (exTrigger = "ok" /\ (PolicyGiven => exWait = "met"))
        /\ (PolicyGiven /\ exWait = "timedOut") => exOutcome.kind = "error"
        /\ exTrigger = "failed" => exOutcome.kind = "error"
        /\ (PolicyGiven /\ exTrigger # "none") =>
              (exWait # "none" /\ exTimeoutMs = PolicyTimeout)
        /\ ~PolicyGiven =>
              /\ exWait = "none"
              /\ \A i \in DOMAIN exLog : exLog[i] = triggerCall(exAction.type)
              /\ exTrigger = "ok" => exOutcome = ExecOk

\* the click succeeded but the awaited navigation never came: execute failed
C6_Witness ==
    /\ exAction.type = "click" /\ PolicyGiven
    /\ exLog = <<"waitForNavigation", "click">>
    /\ exTrigger = "ok" /\ exWait = "timedOut"
    /\ exOutcome = ExecError("NavigationTimeout")

\* C33: a type action empties the field before it types: the field is empty
\* when typing starts, and after a successful type it holds exactly the
\* given text, whatever it held before.
C33_TypeClearsFirst ==
    (exPc = "running" /\ exAction.type = "type") =>
        /\ \A i \in DOMAIN exLog :
              exLog[i] = "type(text)" => (i = 2 /\ exLog[1] = "fill('')")
        /\ (exSteps # <<>> /\ Head(exSteps) = "type(text)") => exField.value = <<>>
        /\ exOutcome = ExecOk =>
              /\ exLog = <<"fill('')", "type(text)">>
              /\ exField.value = exAction.text

\* the field held "x", "ab" was typed and the field holds "ab"
C33_Witness ==
    /\ exPc = "running" /\ exAction.type = "type"
    /\ exOutcome = ExecOk
    /\ exField = [before |-> <<120>>, value |-> <<97, 98>>]

\* the selector of the action is missing or blank
BlankSelector == trim(exAction.selector) = <<>>

\* C36: for a click or submit with a navigation-wait policy the wait is
\* started before the trigger is issued: the wait's page call is the first,
\* the trigger's call the second, so the wait is listening (or already over)
\* whenever the trigger is under way or done.
C36_WaitArmedFirst ==
    (exPc = "running" /\ exAction.type \in {"click", "submit"} /\ PolicyGiven) =>
        LET config == normalizeNavigationWait(exAction.waitForNavigation)
        IN /\ \A i \in DOMAIN exLog :
                 exLog[i] = triggerCall(exAction.type) =>
                     (i = 2 /\ exLog[1] = waitCall(config))
           /\ exTrigger \in {"running", "ok", "failed"} =>
                 /\ exWait \in {"armed", "met", "timedOut"}
                 /\ exLog = <<waitCall(config), triggerCall(exAction.type)>>

\* a submit with a URL policy: the wait was started, then the form was
\* submitted, and the navigation that followed met the wait
C36_Witness ==
    /\ exPc = "running" /\ exAction.type = "submit"
    /\ exLog = <<"waitForURL(includes)", "$eval(submit)">>
    /\ exNavs = 1 /\ exWait = "met" /\ exTrigger = "ok"
    /\ exOutcome = ExecOk

\* C37: click, type, select, submit and waitForSelector with a missing or
\* blank selector fail with the selector-required error before any page
\* call and before a navigation wait is started, whatever the policy.
C37_SelectorCheckedFirst ==
    (exPc = "running"
        /\ exAction.type \in {"click", "type", "select", "submit", "waitForSelector"}
        /\ BlankSelector) =>
        /\ exOutcome = ExecError("selector is required.")
        /\ exLog = <<>>
        /\ exWait = "none"

\* the action types runExecute has a branch for
KnownActionTypes ==
    {"click", "type", "select", "submit", "scroll", "navigate",
     "waitForLoadState", "waitForSelector", "waitForUrl"}

\* C20: execute with an action whose type is none of click, type, select,
\* submit, scroll, navigate, waitForLoadState, waitForSelector, waitForUrl
\* fails with the unknown-action error and makes no page call.
C20_UnknownActionRejected ==
    (exPc = "running" /\ exAction.type \notin KnownActionTypes) =>
        /\ exOutcome = ExecError("Unknown action type")
        /\ exLog = <<>> /\ exSteps = <<>>
        /\ exWait = "none" /\ exTrigger = "none"

\* "Click" is not "click": it was refused and the page was not called
C20_Witness ==
    /\ exPc = "running" /\ exAction.type = "Click"
    /\ exOutcome = ExecError("Unknown action type")
    /\ exLog = <<>>

\* ========================================================================
\* The page: a DOM tree with element geometry
\* ========================================================================
MaxNodes == 3          \* elements of the page below <body>

Max(a, b) == IF a >= b THEN a ELSE b
Min(a, b) == IF a <= b THEN a ELSE b

\* a box that takes the range's corners in the order given
rangeBoundsAsGiven(from, to) ==
    [minCol |-> from.col, maxCol |-> to.col, minRow |-> from.row, maxRow |-> to.row]

\* minCol / maxCol / minRow / maxRow of a range from its two parsed corners
rangeBounds(from, to) ==
    [minCol |-> Min(from.col, to.col), maxCol |-> Max(from.col, to.col),
     minRow |-> Min(from.row, to.row), maxRow |-> Max(from.row, to.row)]

Rect(l, t, r, b) == [left |-> l, top |-> t, right |-> r, bottom |-> b]

\* tabindex attribute: absent, or a number
NoTabIndex == [present |-> FALSE, value |-> 0]
TabIndex(n) == [present |-> TRUE, value |-> n]

Element(tag, id, role, tabindex, onclick, pointer, rect, text) ==
    [tag |-> tag, id |-> id, href |-> FALSE, role |-> role, tabindex |-> tabindex,
     onclick |-> onclick, pointer |-> pointer, rect |-> rect, text |-> text, kb |-> <<>>]

\* the element kinds pages are built from: viewport rectangles are in CSS px;
\* texts and ids are character sequences
ElementKinds ==
    { Element("button", <<>>, "", NoTabIndex, FALSE, FALSE, Rect(10, 10, 60, 40), <<111, 107>>),
      Element("button", <<120>>, "", NoTabIndex, FALSE, TRUE, Rect(10, 10, 60, 40), <<>>),
      Element("div", <<120>>, "", NoTabIndex, FALSE, FALSE, Rect(0, 0, 200, 100), <<>>),
      Element("div", <<>>, "button", NoTabIndex, TRUE, FALSE, Rect(100, 10, 150, 40), <<103, 111>>),
      Element("div", <<>>, "", TabIndex(-1), FALSE, FALSE, Rect(10, 10, 60, 40), <<>>) }

HtmlElement ==
    Element("html", <<>>, "", NoTabIndex, FALSE, FALSE, Rect(0, 0, 300, 200), <<>>)
BodyElement ==
    Element("body", <<>>, "", NoTabIndex, FALSE, FALSE, Rect(0, 0, 300, 200), <<>>)

\* an element of a kind placed under a parent
Placed(kind, parent) ==
    [tag |-> kind.tag, id |-> kind.id, href |-> kind.href, role |-> kind.role,
     tabindex |-> kind.tabindex, onclick |-> kind.onclick, pointer |-> kind.pointer, rect |-> kind.rect,
     text |-> kind.text, kb |-> kind.kb, parent |-> parent]

\* every page of n elements below <body>: element i hangs under <body> or
\* under an earlier element
RECURSIVE Doms(_)
Doms(n) ==
    IF n = 0
    THEN {<<Placed(HtmlElement, 0), Placed(BodyElement, 1)>>}
    ELSE {Append(d, Placed(k, par)) :
            d \in Doms(n - 1), k \in ElementKinds, par \in 2..(n + 1)}

\* window geometry: devicePixelRatio in hundredths, sizes and scroll in CSS px
Pages ==
    { [dprPct |-> 100, innerWidth |-> 300, innerHeight |-> 200,
       scrollWidth |-> 300, scrollHeight |-> 400, scrollX |-> 0, scrollY |-> 0],
      [dprPct |-> 200, innerWidth |-> 300, innerHeight |-> 200,
       scrollWidth |-> 300, scrollHeight |-> 400, scrollX |-> 0, scrollY |-> 0],
      [dprPct |-> 100, innerWidth |-> 300, innerHeight |-> 200,
       scrollWidth |-> 300, scrollHeight |-> 400, scrollX |-> 0, scrollY |-> 100] }

\* ------------------------------------------------------------------------
\* The function evaluated in the page by the selector-based scan
\* ------------------------------------------------------------------------
InteractiveRoles ==
    {"button", "link", "checkbox", "radio", "menuitem", "tab", "switch", "combobox"}

isInteractive(el) ==
    \/ el.tag \in {"button", "input", "select", "textarea", "summary"}
    \/ (el.tag = "a" /\ el.href)
    \/ el.role \in InteractiveRoles
    \/ (el.tabindex.present /\ el.tabindex.value >= 0)
    \/ el.onclick

\* matched by the interactive query or by the cursor:pointer query
isCandidate(el) ==
    \/ el.tag \in {"button", "input", "select", "textarea", "summary"}
    \/ (el.tag = "a" /\ el.href)
    \/ el.role # ""
    \/ el.tabindex.present
    \/ el.onclick
    \/ el.pointer

\* an overlap test that also accepts rectangles sharing an edge
intersectsOrTouches(a, b) ==
    a.left <= b.right /\ a.right >= b.left /\ a.top <= b.bottom /\ a.bottom >= b.top

\* intersects: strict overlap of two rectangles
intersects(a, b) ==
    a.left < b.right /\ a.right > b.left /\ a.top < b.bottom /\ a.bottom > b.top

\* Math.max(0.01, Number(window.devicePixelRatio) || 1), in hundredths
dprOf(pg) == Max(1, IF pg.dprPct = 0 THEN 100 ELSE pg.dprPct)

cssSpaceWidth(pg, space) ==
    IF space = "page" THEN Max(1, IF pg.scrollWidth = 0 THEN 1 ELSE pg.scrollWidth)
    ELSE Max(1, IF pg.innerWidth = 0 THEN 1 ELSE pg.innerWidth)

cssSpaceHeight(pg, space) ==
    IF space = "page" THEN Max(1, IF pg.scrollHeight = 0 THEN 1 ELSE pg.scrollHeight)
    ELSE Max(1, IF pg.innerHeight = 0 THEN 1 ELSE pg.innerHeight)

\* a scan that intersects elements with the zone in image pixels as it is
scaleOfIgnoringRatio(cssSize, dprPct) == 100

\* scale = Math.max(1, cssSize * dpr) / cssSize, in hundredths
scaleOf(cssSize, dprPct) == Max(100, cssSize * dprPct) \div cssSize

\* the zone in CSS px: the image-pixel rectangle of the cells divided by the scale
zoneRect(pg, space, minCol, maxCol, minRow, maxRow) ==
    LET scaleX == scaleOf(cssSpaceWidth(pg, space), dprOf(pg))
        scaleY == scaleOf(cssSpaceHeight(pg, space), dprOf(pg))
    IN Rect((minCol * CELL_SIZE * 100) \div scaleX,
            (minRow * CELL_SIZE * 100) \div scaleY,
            ((maxCol + 1) * CELL_SIZE * 100) \div scaleX,
            ((maxRow + 1) * CELL_SIZE * 100) \div scaleY)

\* a scan that intersects viewport rectangles in either space
rectInSpaceAsMeasured(pg, space, rect) == rect

\* getBoundingClientRect, made document-relative in "page" space
rectInSpace(pg, space, rect) ==
    IF space = "page"
    THEN Rect(rect.left + pg.scrollX, rect.top + pg.scrollY,
              rect.right + pg.scrollX, rect.bottom + pg.scrollY)
    ELSE rect

\* ---- selector synthesis ----
tagChars(tag) ==
    CASE tag = "html" -> <<104, 116, 109, 108>>
      [] tag = "body" -> <<98, 111, 100, 121>>
      [] tag = "div" -> <<100, 105, 118>>
      [] tag = "button" -> <<98, 117, 116, 116, 111, 110>>
      [] tag = "a" -> <<97>>
      [] OTHER -> <<63>>

\* findAnchor: the nearest element, from el upwards, with an id, or <html>;
\* 0 when the walk leaves the tree
RECURSIVE findAnchor(_, _)
findAnchor(d, n) ==
    IF n = 0 THEN 0
    ELSE IF d[n].id # <<>> THEN n
    ELSE IF d[n].tag = "html" THEN n
    ELSE findAnchor(d, d[n].parent)

\* segmentForAnchor: tag#id, or the tag
segmentForAnchor(d, n) ==
    IF d[n].id # <<>> THEN tagChars(d[n].tag) \o <<35>> \o d[n].id
    ELSE tagChars(d[n].tag)

\* segmentForNode: the tag, with :nth-of-type(k) among same-tag siblings
segmentForNode(d, n) ==
    LET parent == d[n].parent
        sameTag == {m \in DOMAIN d : d[m].parent = parent /\ d[m].tag = d[n].tag}
        position == Cardinality({m \in sameTag : m <= n})
    IN IF parent = 0 \/ Cardinality(sameTag) <= 1 THEN tagChars(d[n].tag)
       ELSE tagChars(d[n].tag)
            \o <<58, 110, 116, 104, 45, 111, 102, 45, 116, 121, 112, 101, 40>>
            \o numToString(position) \o <<41>>

\* " > "
Combinator == <<32, 62, 32>>

\* the segments from the anchor (excluded) down to el, joined by " > "
RECURSIVE pathBelow(_, _, _)
pathBelow(d, n, anchor) ==
    IF n = 0 \/ n = anchor THEN <<>>
    ELSE LET up == pathBelow(d, d[n].parent, anchor)
         IN IF up = <<>> THEN segmentForNode(d, n)
            ELSE up \o Combinator \o segmentForNode(d, n)

buildSelector(d, n) ==
    LET anchor == findAnchor(d, n)
        path == pathBelow(d, n, anchor)
    IN IF anchor = 0 THEN path
       ELSE IF path = <<>> THEN segmentForAnchor(d, anchor)
       ELSE segmentForAnchor(d, anchor) \o Combinator \o path

\* ---- ordering ----
\* a.localeCompare(b) < 0 on character sequences (code order)
RECURSIVE lessChars(_, _)
lessChars(a, b) ==
    IF b = <<>> THEN FALSE
    ELSE IF a = <<>> THEN TRUE
    ELSE IF Head(a) # Head(b) THEN Head(a) < Head(b)
    ELSE lessChars(Tail(a), Tail(b))

\* the comparator of results.sort: negative when a goes before b
entryBefore(a, b) ==
    LET aText == toLowerCase(a.text)
        bText == toLowerCase(b.text)
    IN IF aText # <<>> /\ bText # <<>> THEN lessChars(aText, bText)
       ELSE IF aText # <<>> THEN TRUE
       ELSE IF bText # <<>> THEN FALSE
       ELSE lessChars(a.selector, b.selector)

\* stable sort by insertion
RECURSIVE insertEntry(_, _)
insertEntry(sorted, e) ==
    IF sorted = <<>> THEN <<e>>
    ELSE IF entryBefore(e, Head(sorted)) THEN <<e>> \o sorted
    ELSE <<Head(sorted)>> \o insertEntry(Tail(sorted), e)

RECURSIVE sortEntries(_)
sortEntries(entries) ==
    IF entries = <<>> THEN <<>>
    ELSE insertEntry(sortEntries(SubSeq(entries, 1, Len(entries) - 1)),
                     entries[Len(entries)])

\* ---- the candidates.forEach loop ----
\* a loop body that pushes without consulting seenSelectors
pushUnchecked(results, selector) == TRUE

\* `if (!selector || seenSelectors.has(selector)) return;`
pushAllowed(results, selector) ==
    /\ selector # <<>>
    /\ \A i \in DOMAIN results : results[i].selector # selector

\* the entries pushed for elements n..Len(d), after `results` was collected
RECURSIVE collectFrom(_, _, _, _, _, _)
collectFrom(d, pg, space, zone, n, results) ==
    IF n > Len(d) THEN results
    ELSE LET el == d[n]
             keep == /\ isCandidate(el)
                     /\ isInteractive(el)
                     /\ el.rect.right - el.rect.left > 0
                     /\ el.rect.bottom - el.rect.top > 0
                     /\ intersects(zone, rectInSpace(pg, space, el.rect))
                     /\ pushAllowed(results, buildSelector(d, n))
         IN collectFrom(d, pg, space, zone, n + 1,
                IF keep
                THEN Append(results, [selector |-> buildSelector(d, n), tag |-> el.tag,
                                      text |-> el.text, role |-> el.role, node |-> n])
                ELSE results)

\* the whole evaluated function: collect, then sort
zoneElements(d, pg, space, minCol, maxCol, minRow, maxRow) ==
    sortEntries(collectFrom(d, pg, space,
                            zoneRect(pg, space, minCol, maxCol, minRow, maxRow), 1, <<>>))

\* ------------------------------------------------------------------------
\* One evaluation of the scan function on a page
\* ------------------------------------------------------------------------
\* the cell ranges handed to the evaluation: A1:A1, B1:B1, A1:B1
EvalRanges ==
    { [minCol |-> 0, maxCol |-> 0, minRow |-> 0, maxRow |-> 0],
      [minCol |-> 1, maxCol |-> 1, minRow |-> 0, maxRow |-> 0],
      [minCol |-> 0, maxCol |-> 1, minRow |-> 0, maxRow |-> 0] }

EvalInit ==
    /\ IdleButScan
    /\ dom \in Doms(MaxNodes)
    /\ page \in Pages
    /\ scImpl = "eval"
    /\ scZones \in {<<r>> : r \in EvalRanges}
    /\ scSpace \in {"viewport", "page"}
    /\ scPc = "idle" /\ scIdx = 1 /\ scAttempt = 1
    /\ scInFlight = {} /\ scTrace = <<>> /\ scSleeps = <<>>
    /\ scLastError = NoError /\ scResults = <<>> /\ scOutcome = NoOutcome

\* the function passed to page.evaluate runs on the page
EvaluateZone ==
    /\ scImpl = "eval" /\ scPc = "idle"
    /\ LET r == scZones[1]
       IN scResults' = <<zoneElements(dom, page, scSpace,
                                      r.minCol, r.maxCol, r.minRow, r.maxRow)>>
    /\ scPc' = "done"
    /\ UNCHANGED <<dom, page, scImpl, scZones, scSpace, scIdx, scAttempt, scInFlight,
                   scTrace, scSleeps, scLastError, scOutcome>>
    /\ UNCHANGED notScan

EvalNext == EvaluateZone

SpecZoneEval == EvalInit /\ [][EvalNext]_vars

\* C10: the elements returned by one zone scan carry pairwise different selectors.
C10_UniqueSelectors ==
    (scImpl = "eval" /\ scPc = "done") =>
        \A i, j \in DOMAIN scResults[1] :
            scResults[1][i].selector = scResults[1][j].selector => i = j

\* two buttons with the same id intersect the zone and one entry is returned
C10_Witness ==
    /\ scImpl = "eval" /\ scPc = "done"
    /\ \E m, n \in DOMAIN dom :
        /\ m # n /\ dom[m].id = <<120>> /\ dom[n].id = <<120>>
        /\ dom[m].tag = "button" /\ dom[n].tag = "button"
        /\ Cardinality({i \in DOMAIN scResults[1] :
                            scResults[1][i].selector = buildSelector(dom, m)}) = 1

\* ------------------------------------------------------------------------
\* The evaluation on scrolled, zoomed and degenerate windows
\* ------------------------------------------------------------------------
\* "page"
PageChars == <<112, 97, 103, 101>>

\* normalizeCoordinateSpace: String(value || '').toLowerCase() === 'page'
normalizeCoordinateSpace(value) ==
    IF toLowerCase(value) = PageChars THEN "page" ELSE "viewport"

\* payload.coordinateSpace: "page", "PAGE", "Page ", "viewport", "document", ""
SpaceInputs ==
    { PageChars, <<80, 65, 71, 69>>, <<80, 97, 103, 101, 32>>,
      <<118, 105, 101, 119, 112, 111, 114, 116>>,
      <<100, 111, 99, 117, 109, 101, 110, 116>>, <<>> }

\* elements by their rectangle in the document: a button in cell A1, a button
\* in cell A4 (below a 200 px viewport), a button-role div over B2..C3
DocumentKinds ==
    { Element("button", <<>>, "", NoTabIndex, FALSE, FALSE, Rect(10, 10, 60, 40), <<111, 107>>),
      Element("button", <<>>, "", NoTabIndex, FALSE, FALSE, Rect(10, 310, 60, 340), <<>>),
      Element("div", <<>>, "button", NoTabIndex, FALSE, FALSE, Rect(140, 140, 250, 250), <<103, 111>>) }

\* the documents: two elements below <body>
Documents ==
    {<<Placed(HtmlElement, 0), Placed(BodyElement, 1), Placed(a, 2), Placed(b, 2)>> :
        a \in DocumentKinds, b \in DocumentKinds}

\* getBoundingClientRect of every element when the window is scrolled by (x, y)
ScrolledBy(doc, x, y) ==
    [n \in DOMAIN doc |->
        [doc[n] EXCEPT !.rect = Rect(doc[n].rect.left - x, doc[n].rect.top - y,
                                     doc[n].rect.right - x, doc[n].rect.bottom - y)]]

ScrollXs == {0, 50}
ScrollYs == {0, 100, 300}

\* devicePixelRatio 1, 2, 0.5 and 0 (taken for 1), in hundredths
RatioInputs == {100, 200, 50, 0}

\* a 300x200 window on a 400x600 document at every scroll position, and a
\* window and document of no or negative size
GeomPages ==
    { [dprPct |-> r, innerWidth |-> 300, innerHeight |-> 200,
       scrollWidth |-> 400, scrollHeight |-> 600, scrollX |-> x, scrollY |-> y] :
         r \in RatioInputs, x \in ScrollXs, y \in ScrollYs }
    \cup
    { [dprPct |-> r, innerWidth |-> 0, innerHeight |-> -5,
       scrollWidth |-> 0, scrollHeight |-> -5, scrollX |-> 0, scrollY |-> 0] :
         r \in RatioInputs }

\* the cell ranges: A1:A1, A4:A4, B2:C3, A1:C4
GeomRanges ==
    { [minCol |-> 0, maxCol |-> 0, minRow |-> 0, maxRow |-> 0],
      [minCol |-> 0, maxCol |-> 0, minRow |-> 3, maxRow |-> 3],
      [minCol |-> 1, maxCol |-> 2, minRow |-> 1, maxRow |-> 2],
      [minCol |-> 0, maxCol |-> 2, minRow |-> 0, maxRow |-> 3] }

GeomInit ==
    /\ IdleButScan
    /\ page \in GeomPages
    /\ dom \in {ScrolledBy(doc, page.scrollX, page.scrollY) : doc \in Documents}
    /\ scImpl = "eval"
    /\ scZones \in {<<r>> : r \in GeomRanges}
    /\ scSpace \in {normalizeCoordinateSpace(v) : v \in SpaceInputs}
    /\ scPc = "idle" /\ scIdx = 1 /\ scAttempt = 1
    /\ scInFlight = {} /\ scTrace = <<>> /\ scSleeps = <<>>
    /\ scLastError = NoError /\ scResults = <<>> /\ scOutcome = NoOutcome

GeomNext == EvaluateZone

SpecZoneGeom == GeomInit /\ [][GeomNext]_vars

\* the image-pixel rectangle of the scanned cells, times 100
ZoneImage100 ==
    LET r == scZones[1]
    IN Rect(r.minCol * CELL_SIZE * 100, r.minRow * CELL_SIZE * 100,
            (r.maxCol + 1) * CELL_SIZE * 100, (r.maxRow + 1) * CELL_SIZE * 100)

\* the zone rectangle the evaluation used
ZoneUsed ==
    LET r == scZones[1]
    IN zoneRect(page, scSpace, r.minCol, r.maxCol, r.minRow, r.maxRow)

\* the nodes returned by the evaluation
ReturnedNodes == {scResults[1][i].node : i \in DOMAIN scResults[1]}

\* the nodes that pass the filters when rectOf(n) is tested against the zone
Overlapping(zone, rectOf(_)) ==
    {n \in DOMAIN dom : /\ isCandidate(dom[n]) /\ isInteractive(dom[n])
                         /\ dom[n].rect.right - dom[n].rect.left > 0
                         /\ dom[n].rect.bottom - dom[n].rect.top > 0
                         /\ intersects(zone, rectOf(n))}

\* the evaluation returned one entry for every selector of the given nodes
ReturnedFor(nodes) ==
    /\ ReturnedNodes \subseteq nodes
    /\ \A n \in nodes : \E i \in DOMAIN scResults[1] :
           scResults[1][i].selector = buildSelector(dom, n)

\* C28 as stated: the zone rectangle is the image-pixel rectangle divided on
\* both axes by the device pixel ratio, whatever the window and document sizes.
C28_DividedByRatio ==
    (scImpl = "eval" /\ scPc = "done") =>
        LET ratio == dprOf(page)
        IN /\ ratio # 0
           /\ ZoneUsed = Rect(ZoneImage100.left \div ratio, ZoneImage100.top \div ratio,
                              ZoneImage100.right \div ratio, ZoneImage100.bottom \div ratio)

\* the divisor of one axis for the CSS size the page reports
AxisDivisor(cssSize) == IF cssSize * dprOf(page) >= 100 THEN dprOf(page) ELSE 100 \div cssSize

\* C28, amended: on each axis the zone rectangle is the image-pixel rectangle
\* divided by the device pixel ratio when the CSS size (at least 1) times the
\* ratio is at least one image pixel, and by 1 / CSS size otherwise; so it is
\* the image rectangle at ratio 1 and half of it at ratio 2 for every size,
\* the divisor is never zero, and the elements returned are those that
\* overlap that rectangle.
C28_DividedByScale ==
    (scImpl = "eval" /\ scPc = "done") =>
        LET divX == AxisDivisor(cssSpaceWidth(page, scSpace))
            divY == AxisDivisor(cssSpaceHeight(page, scSpace))
            expected == Rect(ZoneImage100.left \div divX, ZoneImage100.top \div divY,
                             ZoneImage100.right \div divX, ZoneImage100.bottom \div divY)
        IN /\ cssSpaceWidth(page, scSpace) >= 1 /\ cssSpaceHeight(page, scSpace) >= 1
           /\ divX > 0 /\ divY > 0
           /\ dprOf(page) >= 100 => (divX = dprOf(page) /\ divY = dprOf(page))
           /\ ZoneUsed = expected
           /\ dprOf(page) = 100 =>
                 ZoneUsed = Rect(ZoneImage100.left \div 100, ZoneImage100.top \div 100,
                                 ZoneImage100.right \div 100, ZoneImage100.bottom \div 100)
           /\ dprOf(page) = 200 =>
                 /\ ZoneUsed.right - ZoneUsed.left
                       = (ZoneImage100.right - ZoneImage100.left) \div 200
                 /\ ZoneUsed.bottom - ZoneUsed.top
                       = (ZoneImage100.bottom - ZoneImage100.top) \div 200
           /\ ReturnedFor(Overlapping(expected,
                                      LAMBDA n : rectInSpace(page, scSpace, dom[n].rect)))

\* at ratio 2, on a window of no size, cells B2:C3, 200 image pixels wide,
\* were scanned as the CSS rectangle [50,150]x[50,150], 100 wide, and the
\* div that overlaps it was returned
C28_Witness ==
    /\ scImpl = "eval" /\ scPc = "done"
    /\ page.dprPct = 200 /\ page.innerWidth = 0 /\ scSpace = "viewport"
    /\ scZones[1] = [minCol |-> 1, maxCol |-> 2, minRow |-> 1, maxRow |-> 2]
    /\ ZoneUsed = Rect(50, 50, 150, 150)
    /\ \E n \in ReturnedNodes : dom[n].tag = "div"

\* the document the window shows: every rectangle moved back by the scroll offset
DocumentOf(d, pg) == ScrolledBy(d, 0 - pg.scrollX, 0 - pg.scrollY)

\* C29: in "page" space the elements returned are those the evaluation
\* returns for the same document at every other scroll position, namely those
\* whose rectangle in the document overlaps the zone; in "viewport" space
\* they are those whose rectangle in the viewport overlaps the zone.
C29_PageSpaceIgnoresScroll ==
    (scImpl = "eval" /\ scPc = "done") =>
        LET r == scZones[1]
            doc == DocumentOf(dom, page)
        IN IF scSpace = "page"
           THEN /\ \A x \in ScrollXs, y \in ScrollYs :
                      zoneElements(ScrolledBy(doc, x, y),
                                   [page EXCEPT !.scrollX = x, !.scrollY = y], "page",
                                   r.minCol, r.maxCol, r.minRow, r.maxRow) = scResults[1]
                /\ ReturnedFor(Overlapping(ZoneUsed, LAMBDA n : doc[n].rect))
           ELSE ReturnedFor(Overlapping(ZoneUsed, LAMBDA n : dom[n].rect))

\* with the window at the top of the document, the button at document row 4,
\* below the 200 px viewport, was returned for zone A4:A4 in "page" space
C29_Witness ==
    /\ scImpl = "eval" /\ scPc = "done" /\ scSpace = "page"
    /\ page.scrollY = 0 /\ page.innerHeight = 200 /\ page.dprPct = 100
    /\ scZones[1] = [minCol |-> 0, maxCol |-> 0, minRow |-> 3, maxRow |-> 3]
    /\ \E n \in ReturnedNodes : dom[n].rect.top >= page.innerHeight

\* ========================================================================
\* runScanZones of the selector-based bridge: zones in turn, each with retries
\* ========================================================================
MaxZones == 2          \* zones of one scanZones call
MaxAttempts == 3       \* maxAttempts of runSingleZoneScanWithRetry

\* the messages page.evaluate can fail with, as sequences of fragments
ScanErrors ==
    { <<"page.evaluate: ", "Execution context was destroyed",
        ", most likely because of a navigation">>,
      <<"Frame was detached">>,
      <<"page.evaluate: ", "TypeError: Cannot read properties of null">> }

\* the four phrases of a page that navigated or was torn down
TransientPhrases ==
    { "Execution context was destroyed", "Cannot find context with specified id",
      "Frame was detached", "Target page, context or browser has been closed" }

\* a test that takes every failure of page.evaluate for a transient one
isRecoverableAlways(message) == message # <<>>

\* isRecoverableScanError: message.includes(...) of one of the four phrases
isRecoverableScanError(message) ==
    \E i \in DOMAIN message :
        message[i] \in { "Execution context was destroyed",
                         "Cannot find context with specified id",
                         "Frame was detached",
                         "Target page, context or browser has been closed" }

\* a catch block that compares with `attempt > maxAttempts`
giveUpLate(message, attempt) ==
    ~isRecoverableScanError(message) \/ attempt > MaxAttempts

\* `if (!isRecoverableScanError(error) || attempt >= maxAttempts) throw error;`
giveUp(message, attempt) ==
    ~isRecoverableScanError(message) \/ attempt >= MaxAttempts

\* results.unshift instead of results.push
unshiftResult(results, r) == <<r>> \o results

\* results.push(await runSingleZoneScanWithRetry(...))
pushResult(results, r) == Append(results, r)

\* `${String(zone.start).toUpperCase()}:${String(zone.end).toUpperCase()}`
zoneName(zone) == toUpperCase(zone.start) \o <<58>> \o toUpperCase(zone.end)

\* the zones a caller passes: A1:A1, B1:A1 (reversed), a1:b1, A0:A1 (invalid
\* start row), A1:1A (invalid end label)
ZoneInputs ==
    { [start |-> <<65, 49>>, end |-> <<65, 49>>],
      [start |-> <<66, 49>>, end |-> <<65, 49>>],
      [start |-> <<97, 49>>, end |-> <<98, 49>>],
      [start |-> <<65, 48>>, end |-> <<65, 49>>],
      [start |-> <<65, 49>>, end |-> <<49, 65>>] }

\* the pages the retry loop is run against
ScanDoms ==
    {d \in Doms(2) : d[3].tag = "button" /\ d[3].id = <<>> /\ d[4].parent = 2
                      /\ d[4].tag # "button" /\ d[4].role = "button"}

StartEvent(z, a) == [kind |-> "start", zone |-> z, attempt |-> a, error |-> NoError]
EndEvent(z, a, e) == [kind |-> "end", zone |-> z, attempt |-> a, error |-> e]

ScanError(message, z, a) == [kind |-> "error", error |-> message, zone |-> z, attempt |-> a]

ScanInit ==
    /\ IdleButScan
    /\ dom \in ScanDoms
    /\ page \in {pg \in Pages : pg.scrollY = 0 /\ pg.dprPct = 100}
    /\ scImpl = "selector"
    /\ scZones \in SeqsUpTo(ZoneInputs, MaxZones)
    /\ scSpace = "viewport"
    /\ scPc = "idle" /\ scIdx = 0 /\ scAttempt = 0
    /\ scInFlight = {} /\ scTrace = <<>> /\ scSleeps = <<>>
    /\ scLastError = NoError /\ scResults = <<>> /\ scOutcome = NoOutcome

\* runScanZones is called: `const results = []`, then the loop over the zones
ScanStart ==
    /\ scImpl = "selector" /\ scPc = "idle"
    /\ IF scZones = <<>>
       THEN /\ scPc' = "done"
            /\ scOutcome' = [kind |-> "ok", zones |-> <<>>]
            /\ UNCHANGED scIdx
       ELSE /\ scPc' = "next"
            /\ scIdx' = 1
            /\ UNCHANGED scOutcome
    /\ UNCHANGED <<dom, page, scImpl, scZones, scSpace, scAttempt, scInFlight,
                   scTrace, scSleeps, scLastError, scResults>>
    /\ UNCHANGED notScan

\* runSingleZoneScanWithRetry up to its first page.evaluate: both labels are
\* parsed, then attempt 1 waits for the DOM and starts the evaluation
ZoneBegin ==
    /\ scImpl = "selector" /\ scPc = "next"
    /\ LET from == parseCell(scZones[scIdx].start)
           to == parseCell(scZones[scIdx].end)
       IN IF ~from.ok \/ ~to.ok
          THEN /\ scOutcome' = ScanError(<<IF ~from.ok THEN from.error ELSE to.error>>,
                                         scIdx, 0)
               /\ scPc' = "done"
               /\ UNCHANGED <<scAttempt, scInFlight, scTrace>>
          ELSE /\ scAttempt' = 1
               /\ scInFlight' = scInFlight \cup {scIdx}
               /\ scTrace' = Append(scTrace, StartEvent(scIdx, 1))
               /\ scPc' = "evaluating"
               /\ UNCHANGED scOutcome
    /\ scLastError' = NoError
    /\ UNCHANGED <<dom, page, scImpl, scZones, scSpace, scIdx, scSleeps, scResults>>
    /\ UNCHANGED notScan

\* page.evaluate returns the zone's elements
EvalSucceeds ==
    /\ scImpl = "selector" /\ scPc = "evaluating"
    /\ LET from == parseCell(scZones[scIdx].start)
           to == parseCell(scZones[scIdx].end)
           box == rangeBounds(from, to)
           elements == zoneElements(dom, page, scSpace,
                                    box.minCol, box.maxCol, box.minRow, box.maxRow)
           results == pushResult(scResults,
                                 [zone |-> zoneName(scZones[scIdx]), elements |-> elements])
       IN /\ scResults' = results
          /\ IF scIdx = Len(scZones)
             THEN /\ scPc' = "done"
                  /\ scOutcome' = [kind |-> "ok", zones |-> results]
                  /\ UNCHANGED scIdx
             ELSE /\ scPc' = "next"
                  /\ scIdx' = scIdx + 1
                  /\ UNCHANGED scOutcome
    /\ scInFlight' = scInFlight \ {scIdx}
    /\ scTrace' = Append(scTrace, EndEvent(scIdx, scAttempt, NoError))
    /\ UNCHANGED <<dom, page, scImpl, scZones, scSpace, scAttempt, scSleeps, scLastError>>
    /\ UNCHANGED notScan

\* page.evaluate throws: the catch block rethrows, or records the error, waits
\* for the DOM and sleeps 200 * attempt ms
EvalFails ==
    /\ scImpl = "selector" /\ scPc = "evaluating"
    /\ \E message \in ScanErrors :
        /\ scTrace' = Append(scTrace, EndEvent(scIdx, scAttempt, message))
        /\ IF giveUp(message, scAttempt)
           THEN /\ scOutcome' = ScanError(message, scIdx, scAttempt)
                /\ scPc' = "done"
                /\ UNCHANGED <<scLastError, scSleeps>>
           ELSE /\ scLastError' = message
                /\ scSleeps' = Append(scSleeps, 200 * scAttempt)
                /\ scPc' = "backoff"
                /\ UNCHANGED scOutcome
    /\ scInFlight' = scInFlight \ {scIdx}
    /\ UNCHANGED <<dom, page, scImpl, scZones, scSpace, scIdx, scAttempt, scResults>>
    /\ UNCHANGED notScan

\* the sleep ends: the next attempt waits for the DOM and starts its evaluation
BackoffEnds ==
    /\ scImpl = "selector" /\ scPc = "backoff"
    /\ scAttempt' = scAttempt + 1
    /\ scInFlight' = scInFlight \cup {scIdx}
    /\ scTrace' = Append(scTrace, StartEvent(scIdx, scAttempt + 1))
    /\ scPc' = "evaluating"
    /\ UNCHANGED <<dom, page, scImpl, scZones, scSpace, scIdx, scSleeps, scLastError,
                   scResults, scOutcome>>
    /\ UNCHANGED notScan

ScanNext == ScanStart \/ ZoneBegin \/ EvalSucceeds \/ EvalFails \/ BackoffEnds

SpecScan == ScanInit /\ [][ScanNext]_vars

IsTransient(message) == \E i \in DOMAIN message : message[i] \in TransientPhrases

StartsOf(z) == {j \in DOMAIN scTrace : scTrace[j].kind = "start" /\ scTrace[j].zone = z}

\* C2: a zone's evaluation is attempted at most 3 times; each attempt after
\* the first directly follows a transient failure of the attempt before it;
\* and after three transient failures the scan fails with the third one.
C2_BoundedRetry ==
    /\ \A z \in DOMAIN scZones : Cardinality(StartsOf(z)) <= 3
    /\ \A j \in DOMAIN scTrace :
          (scTrace[j].kind = "start" /\ scTrace[j].attempt > 1) =>
              /\ j > 1
              /\ scTrace[j - 1].kind = "end"
              /\ scTrace[j - 1].zone = scTrace[j].zone
              /\ scTrace[j - 1].attempt = scTrace[j].attempt - 1
              /\ scTrace[j - 1].error # NoError
              /\ IsTransient(scTrace[j - 1].error)
    /\ \A j \in DOMAIN scTrace :
          (scTrace[j].kind = "end" /\ scTrace[j].attempt = 3 /\ scTrace[j].error # NoError) =>
              /\ j = Len(scTrace)
              /\ scPc = "done"
              /\ scOutcome = ScanError(scTrace[j].error, scTrace[j].zone, 3)

\* three attempts failed, the first two and the third with different transient
\* errors, and the scan failed with the third
C2_Witness ==
    /\ scPc = "done" /\ Len(scTrace) = 6
    /\ scTrace[2].error = <<"Frame was detached">>
    /\ scTrace[4].error = <<"Frame was detached">>
    /\ scTrace[6].error = <<"page.evaluate: ", "Execution context was destroyed",
                             ", most likely because of a navigation">>
    /\ scOutcome = ScanError(scTrace[6].error, 1, 3)
    /\ scSleeps = <<200, 400>>

\* C7: zones are evaluated one after the other: never two evaluations in
\* flight, nothing of zone i+1 before zone i has finished with its retries,
\* and a successful call returns one result per zone in input order.
C7_Sequential ==
    /\ Cardinality(scInFlight) <= 1
    /\ \A j, k \in DOMAIN scTrace : j < k => scTrace[j].zone <= scTrace[k].zone
    /\ \A j \in DOMAIN scTrace :
          (scTrace[j].kind = "start" /\ scTrace[j].zone > 1 /\ scTrace[j].attempt = 1) =>
              /\ j > 1
              /\ scTrace[j - 1] = EndEvent(scTrace[j].zone - 1, scTrace[j - 1].attempt, NoError)
    /\ scOutcome.kind = "ok" =>
          /\ scOutcome.zones = scResults
          /\ Len(scResults) = Len(scZones)
          /\ \A i \in DOMAIN scZones : scResults[i].zone = zoneName(scZones[i])

\* two different zones were scanned, the first after a retry, and both results
\* came back in input order
C7_Witness ==
    /\ scPc = "done" /\ scOutcome.kind = "ok" /\ Len(scZones) = 2
    /\ zoneName(scZones[1]) # zoneName(scZones[2])
    /\ Cardinality(StartsOf(1)) = 2
    /\ scResults[1].zone = zoneName(scZones[1])
    /\ scResults[2].zone = zoneName(scZones[2])

ValidZone(zone) == parseCell(zone.start).ok /\ parseCell(zone.end).ok

\* the end events of attempts that failed with a transient error and were
\* not the last attempt allowed
RetriedFailures ==
    {j \in DOMAIN scTrace : /\ scTrace[j].kind = "end" /\ scTrace[j].error # NoError
                            /\ IsTransient(scTrace[j].error)
                            /\ scTrace[j].attempt < MaxAttempts}

\* C27: an attempt that fails with a non-transient error ends the whole scan
\* with that error: nothing follows it in the trace (no further attempt, no
\* later zone) and no backoff sleep is added for it. A zone with an invalid
\* start or end label ends the scan with the parse error before any attempt
\* for it or for a later zone starts. A failed scan carries the error only,
\* none of the results gathered so far.
C27_FatalErrorAborts ==
    /\ \A j \in DOMAIN scTrace :
          (scTrace[j].kind = "end" /\ scTrace[j].error # NoError
              /\ ~IsTransient(scTrace[j].error)) =>
              /\ j = Len(scTrace)
              /\ scPc = "done"
              /\ scOutcome = ScanError(scTrace[j].error, scTrace[j].zone, scTrace[j].attempt)
    /\ Len(scSleeps) = Cardinality(RetriedFailures)
    /\ \A z \in DOMAIN scZones :
          ~ValidZone(scZones[z]) =>
              /\ \A j \in DOMAIN scTrace : scTrace[j].zone < z
              /\ Len(scResults) < z
              /\ scPc = "done" => scOutcome.kind = "error"
              /\ (scPc = "done" /\ scTrace # <<>> /\ scTrace[Len(scTrace)].error = NoError
                    /\ \A y \in 1..(z - 1) : ValidZone(scZones[y])) =>
                        /\ scOutcome.zone = z /\ scOutcome.attempt = 0
                        /\ Len(scResults) = z - 1
    /\ scOutcome.kind = "error" => DOMAIN scOutcome = {"kind", "error", "zone", "attempt"}

\* the first zone was scanned; the second zone's first attempt failed with a
\* transient error, its second with a TypeError, and the scan failed with the
\* TypeError after the one backoff sleep of the transient failure
C27_Witness ==
    /\ scPc = "done" /\ Len(scZones) = 2 /\ Len(scResults) = 1
    /\ Len(scTrace) = 6
    /\ scTrace[4] = EndEvent(2, 1, <<"Frame was detached">>)
    /\ scTrace[6] = EndEvent(2, 2, <<"page.evaluate: ",
                                     "TypeError: Cannot read properties of null">>)
    /\ scSleeps = <<200>>
    /\ scOutcome = ScanError(scTrace[6].error, 2, 2)

\* ========================================================================
\* runScanZones of the data-kb bridge (src/src/cdp-bridge.mjs): every zone is
\* evaluated through Promise.all, elements are found by sampling points of
\* each cell and are tagged with a data-kb token
\* ========================================================================
SAMPLE_STEP == 10

\* window.getComputedStyle(el).cursor === 'pointer': cursor is inherited
RECURSIVE cursorPointer(_, _)
cursorPointer(d, n) ==
    IF n = 0 THEN FALSE
    ELSE d[n].pointer \/ cursorPointer(d, d[n].parent)

\* isInteractive of the data-kb scan
kbIsInteractive(d, n) ==
    LET el == d[n]
    IN \/ el.tag \in {"button", "input", "select", "textarea", "summary"}
       \/ (el.tag = "a" /\ el.href)
       \/ el.role \in InteractiveRoles
       \/ (el.tabindex.present /\ el.tabindex.value >= 0)
       \/ cursorPointer(d, n)

\* document.elementFromPoint: the topmost element at the point, 0 for none;
\* later elements of the document paint over earlier ones
elementFromPoint(d, x, y) ==
    LET hits == {n \in DOMAIN d : /\ d[n].rect.left <= x /\ x < d[n].rect.right
                                  /\ d[n].rect.top <= y /\ y < d[n].rect.bottom}
    IN IF hits = {} THEN 0 ELSE CHOOSE n \in hits : \A m \in hits : m <= n

\* the node and its parentElement chain, innermost first
RECURSIVE ancestors(_, _)
ancestors(d, n) ==
    IF n = 0 THEN <<>> ELSE <<n>> \o ancestors(d, d[n].parent)

\* `if (isInteractive(node) && !foundInCell.includes(node)) foundInCell.push(node)`
\* for the nodes of chain from position i on
RECURSIVE pushFound(_, _, _, _)
pushFound(d, chain, i, found) ==
    IF i > Len(chain) THEN found
    ELSE LET n == chain[i]
         IN pushFound(d, chain, i + 1,
                      IF kbIsInteractive(d, n) /\ \A k \in DOMAIN found : found[k] # n
                      THEN Append(found, n) ELSE found)

\* `while (node) { ...push...; node = node.parentElement; }`
walkUp(d, n, found) == pushFound(d, ancestors(d, n), 1, found)

\* the inner loop `for (let y = cellTop + 1; y < cellBottom; y += step)`,
\* from the loop state st = [y, found] on
RECURSIVE sampleColumn(_, _, _, _, _)
sampleColumn(d, pg, x, row, st) ==
    IF st.y >= (row + 1) * CELL_SIZE \/ st.y >= pg.innerHeight THEN st.found
    ELSE sampleColumn(d, pg, x, row,
                      [y |-> st.y + SAMPLE_STEP,
                       found |-> walkUp(d, elementFromPoint(d, x, st.y), st.found)])

\* the outer loop `for (let x = cellLeft + 1; x < cellRight; x += step)`,
\* from the loop state st = [x, found] on
RECURSIVE sampleCell(_, _, _, _, _)
sampleCell(d, pg, col, row, st) ==
    IF st.x >= (col + 1) * CELL_SIZE \/ st.x >= pg.innerWidth THEN st.found
    ELSE sampleCell(d, pg, col, row,
                    [x |-> st.x + SAMPLE_STEP,
                     found |-> sampleColumn(d, pg, st.x, row,
                                            [y |-> row * CELL_SIZE + 1,
                                             found |-> st.found])])

\* tagToken: the token joins the element's data-kb attribute unless it is there
tagToken(el, token) ==
    IF \E i \in DOMAIN el.kb : el.kb[i] = token
    THEN el
    ELSE [el EXCEPT !.kb = Append(@, token)]

\* foundInCell.forEach from entry idx (1-based) on; st = [dom, seen, results]
RECURSIVE tagFound(_, _, _, _)
tagFound(st, found, cellName, idx) ==
    IF idx > Len(found) THEN st
    ELSE LET n == found[idx]
             token == cellName \o <<58>> \o numToString(idx - 1)
             tagged == [st.dom EXCEPT ![n] = tagToken(@, token)]
         IN tagFound(IF n \in st.seen
                     THEN [st EXCEPT !.dom = tagged]
                     ELSE [dom |-> tagged,
                           seen |-> st.seen \cup {n},
                           results |-> Append(st.results,
                                              [kb |-> token, tag |-> st.dom[n].tag,
                                               text |-> st.dom[n].text,
                                               role |-> st.dom[n].role, node |-> n])],
                     found, cellName, idx + 1)

\* the loops over the rows and columns of the zone, cell c (row-major) onwards
RECURSIVE kbCells(_, _, _, _, _, _, _)
kbCells(st, pg, minCol, maxCol, minRow, maxRow, c) ==
    LET ncols == maxCol - minCol + 1
        row == minRow + (c \div ncols)
        col == minCol + (c % ncols)
    IN IF row > maxRow THEN st
       ELSE kbCells(tagFound(st, sampleCell(st.dom, pg, col, row,
                                               [x |-> col * CELL_SIZE + 1, found |-> <<>>]),
                             cellLabel(col, row), 1),
                    pg, minCol, maxCol, minRow, maxRow, c + 1)

\* the whole function evaluated in the page: the page it leaves, and its result
kbZoneElements(d, pg, minCol, maxCol, minRow, maxRow) ==
    kbCells([dom |-> d, seen |-> {}, results |-> <<>>],
            pg, minCol, maxCol, minRow, maxRow, 0)

\* the pages the data-kb scan is run against: a container and one element in
\* it or beside it
KbDoms == {d \in Doms(2) : d[3].tag = "div" /\ d[3].id # <<>>}

\* the failure an evaluation can end with
KbErrors == { <<"page.evaluate: ", "Execution context was destroyed",
                ", most likely because of a navigation">> }

ValidZones(zones) ==
    {i \in DOMAIN zones : parseCell(zones[i].start).ok /\ parseCell(zones[i].end).ok}

\* start events of the zones of `todo`, in index order
RECURSIVE startEvents(_, _)
startEvents(todo, i) ==
    IF todo = {} THEN <<>>
    ELSE LET z == CHOOSE z \in todo : \A y \in todo : z <= y
         IN <<StartEvent(z, 1)>> \o startEvents(todo \ {z}, i + 1)

KbInit ==
    /\ IdleButScan
    /\ dom \in KbDoms
    /\ page \in {pg \in Pages : pg.scrollY = 0 /\ pg.dprPct = 100}
    /\ scImpl = "kb"
    /\ scZones \in SeqsUpTo(ZoneInputs, MaxZones)
    /\ scSpace = "viewport"
    /\ scPc = "idle" /\ scIdx = 0 /\ scAttempt = 0
    /\ scInFlight = {} /\ scTrace = <<>> /\ scSleeps = <<>>
    /\ scLastError = NoError /\ scResults = <<>> /\ scOutcome = NoOutcome

\* runScanZones: zones.map runs every callback up to its first await; a zone
\* whose label does not parse rejects its promise, and Promise.all with it
KbScanStart ==
    /\ scImpl = "kb" /\ scPc = "idle"
    /\ LET valid == ValidZones(scZones)
           invalid == DOMAIN scZones \ valid
       IN /\ scInFlight' = valid
          /\ scTrace' = startEvents(valid, 1)
          /\ scPc' = IF valid = {} THEN "done" ELSE "evaluating"
          /\ scOutcome' =
               IF scZones = <<>> THEN [kind |-> "ok", zones |-> <<>>]
               ELSE IF invalid # {}
               THEN LET z == CHOOSE z \in invalid : \A y \in invalid : z <= y
                        from == parseCell(scZones[z].start)
                    IN ScanError(<<IF ~from.ok THEN from.error
                                   ELSE parseCell(scZones[z].end).error>>, z, 0)
               ELSE scOutcome
    /\ scAttempt' = 1
    /\ UNCHANGED <<dom, page, scImpl, scZones, scSpace, scIdx, scSleeps, scLastError,
                   scResults>>
    /\ UNCHANGED notScan

\* the page runs the oldest evaluation in flight and returns its elements
KbEvalSucceeds ==
    /\ scImpl = "kb" /\ scPc = "evaluating" /\ scInFlight # {}
    /\ LET z == CHOOSE z \in scInFlight : \A y \in scInFlight : z <= y
           from == parseCell(scZones[z].start)
           to == parseCell(scZones[z].end)
           st == kbZoneElements(dom, page,
                                Min(from.col, to.col), Max(from.col, to.col),
                                Min(from.row, to.row), Max(from.row, to.row))
           results == Append(scResults,
                             [zone |-> zoneName(scZones[z]), elements |-> st.results])
       IN /\ dom' = st.dom
          /\ scResults' = results
          /\ scInFlight' = scInFlight \ {z}
          /\ scTrace' = Append(scTrace, EndEvent(z, 1, NoError))
          /\ scPc' = IF scInFlight = {z} THEN "done" ELSE "evaluating"
          /\ scOutcome' = IF scInFlight = {z} /\ scOutcome = NoOutcome
                          THEN [kind |-> "ok", zones |-> results]
                          ELSE scOutcome
    /\ UNCHANGED <<page, scImpl, scZones, scSpace, scIdx, scAttempt, scSleeps,
                   scLastError>>
    /\ UNCHANGED notScan

\* the oldest evaluation in flight throws: Promise.all rejects with the first
\* rejection, the other evaluations go on
KbEvalFails ==
    /\ scImpl = "kb" /\ scPc = "evaluating" /\ scInFlight # {}
    /\ \E message \in KbErrors :
        LET z == CHOOSE z \in scInFlight : \A y \in scInFlight : z <= y
        IN /\ scInFlight' = scInFlight \ {z}
           /\ scTrace' = Append(scTrace, EndEvent(z, 1, message))
           /\ scPc' = IF scInFlight = {z} THEN "done" ELSE "evaluating"
           /\ scOutcome' = IF scOutcome = NoOutcome
                           THEN ScanError(message, z, 1)
                           ELSE scOutcome
    /\ UNCHANGED <<dom, page, scImpl, scZones, scSpace, scIdx, scAttempt, scSleeps,
                   scLastError, scResults>>
    /\ UNCHANGED notScan

KbNext == KbScanStart \/ KbEvalSucceeds \/ KbEvalFails

SpecKbScan == KbInit /\ [][KbNext]_vars

\* C8: a scan reads the page and never writes to it: in particular no element
\* ever carries a data-kb attribute that the page did not have before the scan.
C8_PageUntouched ==
    \A n \in DOMAIN dom : dom[n].kb = <<>>

\* ========================================================================
\* What one zone evaluation returns
\* ========================================================================
\* the zone of the evaluation, in the CSS px of the coordinate space
EvalZone ==
    zoneRect(page, scSpace, scZones[1].minCol, scZones[1].maxCol,
             scZones[1].minRow, scZones[1].maxRow)

\* C11: every returned element is interactive, has a rectangle of positive
\* area, and that rectangle strictly overlaps the mapped zone rectangle; an
\* element outside the zone or only touching its edge is not returned.
C11_OnlyOverlapping ==
    (scImpl = "eval" /\ scPc = "done") =>
        \A n \in ReturnedNodes :
            LET r == rectInSpace(page, scSpace, dom[n].rect)
            IN /\ isInteractive(dom[n])
               /\ r.right - r.left > 0 /\ r.bottom - r.top > 0
               /\ r.left < EvalZone.right /\ r.right > EvalZone.left
               /\ r.top < EvalZone.bottom /\ r.bottom > EvalZone.top

\* zone A1 was evaluated on a page with a button inside A1, which is returned,
\* and an interactive element whose left edge lies on A1's right edge, which
\* is not
C11_Witness ==
    /\ scImpl = "eval" /\ scPc = "done"
    /\ EvalZone = Rect(0, 0, 100, 100)
    /\ \E m, n \in DOMAIN dom :
        /\ isInteractive(dom[m]) /\ rectInSpace(page, scSpace, dom[m].rect).left = 100
        /\ m \notin ReturnedNodes
        /\ dom[n].tag = "button" /\ n \in ReturnedNodes

\* ------------------------------------------------------------------------
\* document.querySelectorAll on a synthesized selector, as the actions that
\* take a selector resolve it
\* ------------------------------------------------------------------------
\* the selector text cut at its " > " combinators
RECURSIVE splitSelector(_)
splitSelector(sel) ==
    LET cuts == {i \in 1..(Len(sel) - 2) : SubSeq(sel, i, i + 2) = Combinator}
    IN IF cuts = {} THEN <<sel>>
       ELSE LET cut == CHOOSE i \in cuts : \A j \in cuts : i <= j
            IN <<SubSeq(sel, 1, cut - 1)>> \o splitSelector(SubSeq(sel, cut + 3, Len(sel)))

\* a compound selector tag, tag#id or tag:nth-of-type(k) read into its parts
parseSegment(seg) ==
    LET marks == {i \in DOMAIN seg : seg[i] \in {35, 58}}
        cut == IF marks = {} THEN Len(seg) + 1
               ELSE CHOOSE i \in marks : \A j \in marks : i <= j
    IN [tag |-> SubSeq(seg, 1, cut - 1),
        id |-> IF cut <= Len(seg) /\ seg[cut] = 35
               THEN SubSeq(seg, cut + 1, Len(seg)) ELSE <<>>,
        nth |-> IF cut <= Len(seg) /\ seg[cut] = 58
                THEN parseInt(SelectSeq(SubSeq(seg, cut, Len(seg)), IsDigit)) ELSE 0]

\* the element's 1-based position among the siblings of its tag
nthOfType(d, m) ==
    Cardinality({k \in DOMAIN d : d[k].parent = d[m].parent /\ d[k].tag = d[m].tag /\ k <= m})

matchesSegment(d, m, seg) ==
    /\ tagChars(d[m].tag) = seg.tag
    /\ (seg.id # <<>> => d[m].id = seg.id)
    /\ (seg.nth # 0 => nthOfType(d, m) = seg.nth)

\* element m matches segments 1..k joined by child combinators
RECURSIVE matchesPath(_, _, _, _)
matchesPath(d, m, segs, k) ==
    /\ matchesSegment(d, m, parseSegment(segs[k]))
    /\ (k > 1 => (d[m].parent # 0 /\ matchesPath(d, d[m].parent, segs, k - 1)))

querySelectorAll(d, sel) ==
    LET segs == splitSelector(sel)
    IN {m \in DOMAIN d : matchesPath(d, m, segs, Len(segs))}

\* C12: the selector of every returned element, resolved against the same
\* page, matches that element and no other.
C12_SelectorResolvesToElement ==
    (scImpl = "eval" /\ scPc = "done") =>
        \A i \in DOMAIN scResults[1] :
            querySelectorAll(dom, scResults[1][i].selector) = {scResults[1][i].node}

\* ========================================================================
\* parseCell on labels it must refuse
\* ========================================================================
\* s is one or more uppercase letters followed by one or more digits
MatchesPattern(s) ==
    \E k \in 1..(Len(s) - 1) :
        /\ \A i \in 1..k : IsUpper(s[i])
        /\ \A i \in (k + 1)..Len(s) : IsDigit(s[i])

\* the digits of s, read as a number, are 0 or less
RowNotPositive(s) ==
    parseInt(SelectSeq(s, IsDigit)) <= 0

ParsedInput == gridMode = "fromLabel" /\ gridPc # "start"

Refused ==
    /\ ~gridCoord.ok
    /\ gridCoord.error \in {"Invalid grid coordinate", "Invalid row index in coordinate"}
    /\ gridCoord.col = -1 /\ gridCoord.row = -1

\* C15 as stated: parseCell fails, producing no coordinate, for every input
\* that is not uppercase letters followed by digits, and for every input whose
\* row number is <= 0.
C15_RefusesUnlessPattern ==
    (ParsedInput /\ (~MatchesPattern(gridInput) \/ RowNotPositive(gridInput))) => Refused

\* C15, amended: parseCell fails, producing no coordinate, for every input
\* that, once trimmed and uppercased, is not uppercase letters followed by
\* digits, and for every such input whose row number is <= 0.
C15_RefusesUnlessNormalizedPattern ==
    LET normalized == toUpperCase(trim(gridInput))
    IN (ParsedInput /\ (~MatchesPattern(normalized) \/ RowNotPositive(normalized)))
          => Refused

\* "A0" was refused for its row, and "1" for its pattern
C15_Witness ==
    /\ ParsedInput /\ Refused
    /\ \/ gridInput = <<65, 48>> /\ gridCoord.error = "Invalid row index in coordinate"
       \/ gridInput = <<49>> /\ gridCoord.error = "Invalid grid coordinate"

\* ========================================================================
\* runGridScreenshot: the captured frame, the crop, the overlay, and the
\* value that reaches the caller of gridScreenshot
\* ========================================================================
\* Math.ceil(a / b) for a >= 0, b > 0
ceilDiv(a, b) == (a + b - 1) \div b

\* the per-cell badges of buildGridOverlaySvg, row by row: label and box origin
overlayBadges(cols, rows, colOffset, rowOffset) ==
    [i \in 1..(rows * cols) |->
        LET r == (i - 1) \div cols
            c == (i - 1) % cols
        IN [label |-> cellLabel(colOffset + c, rowOffset + r),
            boxX |-> LABEL_MARGIN + c * CELL_SIZE + 2,
            boxY |-> LABEL_MARGIN + r * CELL_SIZE + 2]]

\* buildGridOverlaySvg: size, column and row headers, badges
buildGridOverlaySvg(contentWidth, contentHeight, cols, rows, colOffset, rowOffset) ==
    [totalW |-> LABEL_MARGIN + contentWidth,
     totalH |-> LABEL_MARGIN + contentHeight,
     colHeaders |-> [c \in 1..cols |-> colLabel(colOffset + c - 1)],
     rowHeaders |-> [r \in 1..rows |-> numToString(rowOffset + r)],
     badges |-> overlayBadges(cols, rows, colOffset, rowOffset)]

\* sharp's extract accepts a rectangle that lies inside the frame
extractOk(frame, left, top, width, height) ==
    /\ left >= 0 /\ top >= 0 /\ width > 0 /\ height > 0
    /\ left + width <= frame.width /\ top + height <= frame.height

ShotError(e) == [kind |-> "error", error |-> e]

\* a crop that always extracts from the frame's origin
cropOriginAtZero(frame, box) ==
    [left |-> 0, top |-> 0,
     width |-> Max(1, Min(frame.width, (box.maxCol + 1) * CELL_SIZE) - box.minCol * CELL_SIZE),
     height |-> Max(1, Min(frame.height, (box.maxRow + 1) * CELL_SIZE) - box.minRow * CELL_SIZE)]

\* contentLeft / contentTop / cropWidth / cropHeight
cropRect(frame, box) ==
    LET contentLeft == Max(0, box.minCol * CELL_SIZE)
        contentTop == Max(0, box.minRow * CELL_SIZE)
        contentRight == Min(frame.width, (box.maxCol + 1) * CELL_SIZE)
        contentBottom == Min(frame.height, (box.maxRow + 1) * CELL_SIZE)
    IN [left |-> contentLeft, top |-> contentTop,
        width |-> Max(1, contentRight - contentLeft),
        height |-> Max(1, contentBottom - contentTop)]

\* runGridScreenshot: the image it composes, or the error it throws
runGridScreenshot(frame, start, end) ==
    IF frame.width = 0 \/ frame.height = 0
    THEN ShotError("Failed to determine screenshot dimensions.")
    ELSE IF start # <<>> /\ end # <<>>
    THEN LET from == parseCell(start)
             to == parseCell(end)
         IN IF ~from.ok THEN ShotError(from.error)
            ELSE IF ~to.ok THEN ShotError(to.error)
            ELSE LET box == rangeBounds(from, to)
                     crop == cropRect(frame, box)
                 IN IF ~extractOk(frame, crop.left, crop.top, crop.width, crop.height)
                    THEN ShotError("extract_area: bad extract area")
                    ELSE [kind |-> "image", cropped |-> TRUE, box |-> box,
                          width |-> crop.width + LABEL_MARGIN,
                          height |-> crop.height + LABEL_MARGIN,
                          extract |-> crop,
                          contentAt |-> [left |-> LABEL_MARGIN, top |-> LABEL_MARGIN],
                          overlay |-> buildGridOverlaySvg(crop.width, crop.height,
                                          ceilDiv(crop.width, CELL_SIZE),
                                          ceilDiv(crop.height, CELL_SIZE),
                                          box.minCol, box.minRow)]
    ELSE [kind |-> "image", cropped |-> FALSE,
          box |-> [minCol |-> 0, maxCol |-> ceilDiv(frame.width, CELL_SIZE) - 1,
                   minRow |-> 0, maxRow |-> ceilDiv(frame.height, CELL_SIZE) - 1],
          width |-> frame.width + LABEL_MARGIN,
          height |-> frame.height + LABEL_MARGIN,
          extract |-> [left |-> 0, top |-> 0, width |-> frame.width, height |-> frame.height],
          contentAt |-> [left |-> LABEL_MARGIN, top |-> LABEL_MARGIN],
          overlay |-> buildGridOverlaySvg(frame.width, frame.height,
                          ceilDiv(frame.width, CELL_SIZE), ceilDiv(frame.height, CELL_SIZE),
                          0, 0)]

\* the frames captured: 1000x800, one with partial cells, a small one, none
Frames ==
    { [width |-> 1000, height |-> 800], [width |-> 450, height |-> 430],
      [width |-> 100, height |-> 100], [width |-> 0, height |-> 0] }

\* A1 B2 C4 D4 d4 " B2" K9 A0 and the absent label
ShotLabels ==
    { <<65, 49>>, <<66, 50>>, <<67, 52>>, <<68, 52>>, <<100, 52>>, <<SPACE, 66, 50>>,
      <<75, 57>>, <<65, 48>>, <<>> }

ShotInit ==
    /\ IdleButShot
    /\ shFrame \in Frames
    /\ shStart \in ShotLabels
    /\ shEnd \in ShotLabels
    /\ shPc = "idle" /\ shImage = NoImage /\ shResult = NoOutcome
    /\ shReturned = NoOutcome

\* the worker's gridScreenshot branch: runGridScreenshot, then the result
\* object { imageBase64 } is written, or the error is thrown
ShotCompose ==
    /\ shPc = "idle"
    /\ LET image == runGridScreenshot(shFrame, shStart, shEnd)
       IN IF image.kind = "error"
          THEN /\ shImage' = NoImage
               /\ shResult' = image
          ELSE /\ shImage' = image
               /\ shResult' = [kind |-> "ok", imageBase64 |-> image]
    /\ shPc' = "composed"
    /\ UNCHANGED <<shFrame, shStart, shEnd, shReturned>>
    /\ UNCHANGED notShot

\* gridScreenshotInternal: the bridge's result is turned into the Buffer the
\* caller receives; an error of the worker rejects the promise
ShotReturn ==
    /\ shPc = "composed"
    /\ shReturned' = IF shResult.kind = "ok"
                     THEN [kind |-> "ok", image |-> shResult.imageBase64]
                     ELSE shResult
    /\ shPc' = "done"
    /\ UNCHANGED <<shFrame, shStart, shEnd, shImage, shResult>>
    /\ UNCHANGED notShot

ShotNext == ShotCompose \/ ShotReturn

SpecShot == ShotInit /\ [][ShotNext]_vars

\* ---- the range of a cropped screenshot, read from the two labels ----
ShotRangeGiven ==
    /\ shStart # <<>> /\ shEnd # <<>>
    /\ parseCell(shStart).ok /\ parseCell(shEnd).ok

ShotCols == {parseCell(shStart).col, parseCell(shEnd).col}
ShotRows == {parseCell(shStart).row, parseCell(shEnd).row}
ShotMinCol == CHOOSE c \in ShotCols : \A d \in ShotCols : c <= d
ShotMaxCol == CHOOSE c \in ShotCols : \A d \in ShotCols : c >= d
ShotMinRow == CHOOSE r \in ShotRows : \A q \in ShotRows : r <= q
ShotMaxRow == CHOOSE r \in ShotRows : \A q \in ShotRows : r >= q

ShotRangeInsideFrame ==
    /\ (ShotMaxCol + 1) * 100 <= shFrame.width
    /\ (ShotMaxRow + 1) * 100 <= shFrame.height

\* C13: for a range whose cells all lie inside the captured frame, the content
\* is the (maxCol-minCol+1)*100 by (maxRow-minRow+1)*100 rectangle of the
\* original frame at (minCol*100, minRow*100), the output is that content
\* behind a 50 px top and left margin, and the badges are the labels of the
\* cells of the range, each once.
C13_CropIsRange ==
    (shPc # "idle" /\ ShotRangeGiven /\ ShotRangeInsideFrame) =>
        /\ shImage.kind = "image"
        /\ shImage.extract = [left |-> ShotMinCol * 100, top |-> ShotMinRow * 100,
                              width |-> (ShotMaxCol - ShotMinCol + 1) * 100,
                              height |-> (ShotMaxRow - ShotMinRow + 1) * 100]
        /\ shImage.width = shImage.extract.width + 50
        /\ shImage.height = shImage.extract.height + 50
        /\ shImage.contentAt = [left |-> 50, top |-> 50]
        /\ Len(shImage.overlay.badges) =
              (ShotMaxCol - ShotMinCol + 1) * (ShotMaxRow - ShotMinRow + 1)
        /\ \A c \in ShotMinCol..ShotMaxCol, r \in ShotMinRow..ShotMaxRow :
              Cardinality({i \in DOMAIN shImage.overlay.badges :
                              shImage.overlay.badges[i].label = cellLabel(c, r)}) = 1

\* B2..D4 on the 1000x800 frame: 300x300 content taken at (100, 100), a
\* 350x350 image, nine badges from B2 to D4
C13_Witness ==
    /\ shPc = "done" /\ shFrame = [width |-> 1000, height |-> 800]
    /\ shStart = <<66, 50>> /\ shEnd = <<68, 52>>
    /\ shImage.extract = [left |-> 100, top |-> 100, width |-> 300, height |-> 300]
    /\ shImage.width = 350 /\ shImage.height = 350
    /\ Len(shImage.overlay.badges) = 9
    /\ shImage.overlay.badges[1].label = <<66, 50>>
    /\ shImage.overlay.badges[9].label = <<68, 52>>

\* C38: for every valid range and every frame the rectangle handed to extract
\* lies inside the captured frame, ranges partly or wholly beyond the frame's
\* last column or row included, so that the cropped image is composed.
C38_CropInsideFrame ==
    (shPc # "idle" /\ ShotRangeGiven /\ shFrame.width > 0 /\ shFrame.height > 0) =>
        LET crop == cropRect(shFrame, [minCol |-> ShotMinCol, maxCol |-> ShotMaxCol,
                                       minRow |-> ShotMinRow, maxRow |-> ShotMaxRow])
        IN /\ crop.left >= 0 /\ crop.top >= 0
           /\ crop.left + crop.width <= shFrame.width
           /\ crop.top + crop.height <= shFrame.height
           /\ shImage.kind = "image"
           /\ shImage.extract = crop

\* C14: a screenshot of a sub-range reaches the caller together with the
\* crop's zero-based (column, row) offset.
C14_OffsetReturned ==
    (shPc = "done" /\ ShotRangeGiven /\ shReturned.kind = "ok") =>
        /\ "offset" \in DOMAIN shReturned
        /\ shReturned.offset = [col |-> ShotMinCol, row |-> ShotMinRow]

\* C16: the bounding box computed for {start: s, end: e} is the one computed
\* for {start: e, end: s}.
C16_OrderIndependent ==
    (shPc # "idle" /\ ShotRangeGiven /\ shImage.kind = "image") =>
        /\ shImage.box = rangeBounds(parseCell(shEnd), parseCell(shStart))
        /\ shImage.box = [minCol |-> ShotMinCol, maxCol |-> ShotMaxCol,
                          minRow |-> ShotMinRow, maxRow |-> ShotMaxRow]

\* C4..A1 was composed with the box of A1..C4
C16_Witness ==
    /\ shPc = "done" /\ shStart = <<67, 52>> /\ shEnd = <<65, 49>>
    /\ shImage.kind = "image"
    /\ shImage.box = [minCol |-> 0, maxCol |-> 2, minRow |-> 0, maxRow |-> 3]
    /\ shImage.extract.left = 0 /\ shImage.extract.top = 0

\* ========================================================================
\* The client: main(env) -> getAuthConfig -> createChromeBrowserClient, and
\* launchDaemon in front of the operations
\* ========================================================================
CDP_WAIT_TIMEOUT_MS == 12000
POLL_SLEEP_MS == 250

Set(chars) == [set |-> TRUE, value |-> chars]

\* "false" "true" "0" "1" " FALSE " "off" and the empty string
AutoLaunchTexts ==
    { <<102, 97, 108, 115, 101>>, <<116, 114, 117, 101>>, <<48>>, <<49>>,
      <<SPACE, 70, 65, 76, 83, 69, SPACE>>, <<111, 102, 102>>, <<>> }

Envs ==
    [GEMINI_API_KEY : {Unset, Set(<<107>>), Set(<<>>)},
     CHROME_AUTO_LAUNCH : {Unset} \cup {Set(t) : t \in AutoLaunchTexts}]

\* parseBool: ['1', 'true', 'yes', 'on'].includes(value.trim().toLowerCase())
parseBool(v) ==
    IF ~v.set \/ v.value = <<>> THEN FALSE
    ELSE toLowerCase(trim(v.value)) \in
            { <<49>>, <<116, 114, 117, 101>>, <<121, 101, 115>>, <<111, 110>> }

\* getAuthConfig: the fields of AuthConfig this model follows
getAuthConfig(env) ==
    [headless |-> FALSE,
     remoteDebuggingPort |-> 9222,
     autoLaunch |-> IF env.CHROME_AUTO_LAUNCH.set /\ env.CHROME_AUTO_LAUNCH.value # <<>>
                    THEN parseBool(env.CHROME_AUTO_LAUNCH) ELSE TRUE]

\* config.geminiApiKey as the labels operations read it: <<>> when the
\* config object has no such property
geminiApiKeyOf(config) ==
    IF "geminiApiKey" \in DOMAIN config THEN config.geminiApiKey ELSE <<>>

LabelOps == {"labels", "labelsOverview", "labelsInRange"}
ClientOps ==
    {"launchDaemon", "open", "listTabs", "gridScreenshot", "scanZones", "execute"}
        \cup LabelOps

ClientError(e) == [kind |-> "error", error |-> e]

\* what the fetches of waitForCdp and the sleep between them cost, in ms
PollCosts == {POLL_SLEEP_MS, 4000}

ClientInit ==
    /\ IdleButClient
    /\ clEnv \in Envs
    /\ clConfig = getAuthConfig(clEnv)
    /\ clOp = "none" /\ clPc = "idle"
    /\ cdpUp \in BOOLEAN
    /\ clSpawns = 0 /\ clElapsed = 0 /\ clDaemon = NoDaemon
    /\ clOutcome = NoOutcome

\* an operation of the client is called: the labels operations check the key
\* first, every operation then awaits launchDaemon
CallOperation ==
    /\ clPc = "idle"
    /\ \E op \in ClientOps :
        /\ clOp' = op
        /\ IF op \in LabelOps /\ geminiApiKeyOf(clConfig) = <<>>
           THEN /\ clOutcome' = ClientError("Missing GEMINI_API_KEY in environment.")
                /\ clPc' = "done"
           ELSE /\ clPc' = "called"
                /\ UNCHANGED clOutcome
    /\ UNCHANGED <<clEnv, clConfig, cdpUp, clSpawns, clElapsed, clDaemon>>
    /\ UNCHANGED notClient

\* a launchDaemon that spawns without looking at the endpoint
DaemonCheckBlind ==
    /\ clPc = "called"
    /\ clSpawns' = clSpawns + 1
    /\ clDaemon' = [kind |-> "result", pid |-> "pid", launched |-> TRUE]
    /\ clElapsed' = 0
    /\ clPc' = "waiting"
    /\ UNCHANGED <<clEnv, clConfig, clOp, cdpUp, clOutcome>>
    /\ UNCHANGED notClient

\* launchDaemon: isCdpReachable answers; reachable returns launched: false,
\* unreachable spawns the browser and enters waitForCdp
DaemonCheck ==
    /\ clPc = "called"
    /\ IF cdpUp
       THEN /\ clDaemon' = [kind |-> "result", pid |-> "null", launched |-> FALSE]
            /\ clPc' = "launched"
            /\ UNCHANGED <<clSpawns, clElapsed>>
       ELSE /\ clSpawns' = clSpawns + 1
            /\ \E pid \in {"pid", "null"} :
                  clDaemon' = [kind |-> "result", pid |-> pid, launched |-> TRUE]
            /\ clElapsed' = 0
            /\ clPc' = "waiting"
    /\ UNCHANGED <<clEnv, clConfig, clOp, cdpUp, clOutcome>>
    /\ UNCHANGED notClient

\* one round of waitForCdp's loop: reachable ends the wait, otherwise sleep
WaitPoll ==
    /\ clPc = "waiting" /\ clElapsed < CDP_WAIT_TIMEOUT_MS
    /\ IF cdpUp
       THEN /\ clPc' = "launched"
            /\ UNCHANGED clElapsed
       ELSE /\ \E cost \in PollCosts : clElapsed' = clElapsed + cost
            /\ UNCHANGED clPc
    /\ UNCHANGED <<clEnv, clConfig, clOp, cdpUp, clSpawns, clDaemon, clOutcome>>
    /\ UNCHANGED notClient

\* waitForCdp returns false: launchDaemon throws
WaitExpires ==
    /\ clPc = "waiting" /\ clElapsed >= CDP_WAIT_TIMEOUT_MS
    /\ clOutcome' = ClientError("Unable to connect to Chrome CDP after launch.")
    /\ clPc' = "done"
    /\ UNCHANGED <<clEnv, clConfig, clOp, cdpUp, clSpawns, clElapsed, clDaemon>>
    /\ UNCHANGED notClient

\* launchDaemon has returned: it was the operation, or the operation goes on
\* to its bridge call or fetch, which succeeds or fails
OperationEnds ==
    /\ clPc = "launched"
    /\ \/ /\ clOp = "launchDaemon"
          /\ clOutcome' = [kind |-> "ok", value |-> clDaemon]
       \/ /\ clOp # "launchDaemon"
          /\ clOutcome' \in {[kind |-> "ok", value |-> clOp], ClientError("operation failed")}
    /\ clPc' = "done"
    /\ UNCHANGED <<clEnv, clConfig, clOp, cdpUp, clSpawns, clElapsed, clDaemon>>
    /\ UNCHANGED notClient

\* the browser's debugging endpoint starts answering, or stops
EndpointUp ==
    /\ ~cdpUp /\ clPc # "done"
    /\ cdpUp' = TRUE
    /\ UNCHANGED <<clEnv, clConfig, clOp, clPc, clSpawns, clElapsed, clDaemon, clOutcome>>
    /\ UNCHANGED notClient

EndpointDown ==
    /\ cdpUp /\ clPc # "done"
    /\ cdpUp' = FALSE
    /\ UNCHANGED <<clEnv, clConfig, clOp, clPc, clSpawns, clElapsed, clDaemon, clOutcome>>
    /\ UNCHANGED notClient

ClientNext ==
    \/ CallOperation \/ DaemonCheck \/ WaitPoll \/ WaitExpires \/ OperationEnds
    \/ EndpointUp \/ EndpointDown

SpecClient == ClientInit /\ [][ClientNext]_vars

\* C17: launchDaemon spawns a browser only when the endpoint was unreachable
\* at its check; when it was reachable it returns launched = false and pid =
\* null without spawning; after a spawn it returns only once the endpoint is
\* reachable within the wait budget, and otherwise fails with the
\* connection-unreachable error.
C17_LaunchOnlyWhenUnreachable ==
    [][ /\ clSpawns' # clSpawns =>
              (clPc = "called" /\ ~cdpUp /\ clSpawns' = clSpawns + 1)
        /\ (clPc = "called" /\ clPc' # "called" /\ cdpUp) =>
              /\ clSpawns' = clSpawns
              /\ clPc' = "launched"
              /\ clDaemon'.launched = FALSE /\ clDaemon'.pid = "null"
        /\ (clPc = "waiting" /\ clPc' = "launched") =>
              (cdpUp /\ clElapsed < 12000 /\ clDaemon'.launched)
        /\ (clPc = "waiting" /\ clPc' = "done") =>
              /\ clElapsed >= 12000
              /\ clOutcome' = ClientError("Unable to connect to Chrome CDP after launch.")
        /\ (clOp' = "launchDaemon" /\ clOutcome'.kind = "ok") =>
              (clPc = "launched" /\ clOutcome'.value = clDaemon)
      ]_vars

\* launchDaemon found the endpoint down, spawned once, waited out the budget
\* and failed
C17_Witness ==
    /\ clOp = "launchDaemon" /\ clPc = "done" /\ clSpawns = 1
    /\ clElapsed >= 12000
    /\ clOutcome = ClientError("Unable to connect to Chrome CDP after launch.")

\* C18: labels(), labelsOverview() and labelsInRange() fail with the
\* missing-key error when GEMINI_API_KEY is absent from the environment, and
\* do not fail with that error when it is set in the env given to main(env).
C18_KeyFromEnv ==
    (clPc = "done" /\ clOp \in LabelOps) =>
        /\ ~clEnv.GEMINI_API_KEY.set =>
              clOutcome = ClientError("Missing GEMINI_API_KEY in environment.")
        /\ (clEnv.GEMINI_API_KEY.set /\ clEnv.GEMINI_API_KEY.value # <<>>) =>
              clOutcome # ClientError("Missing GEMINI_API_KEY in environment.")

\* C19: with CHROME_AUTO_LAUNCH set to false, no operation of the client
\* spawns a browser, whatever the endpoint answers.
C19_NoSpawnWhenAutoLaunchOff ==
    (clEnv.CHROME_AUTO_LAUNCH = Set(<<102, 97, 108, 115, 101>>)) => clSpawns = 0

\* ========================================================================
\* findInteractiveElement and findBestInteractiveElement
\* ========================================================================
MaxElements == 3       \* interactive elements in the high-detail result
MaxExtreme == 1        \* interactive elements in the extreme-detail result

IsAlnum(c) == IsLower(c) \/ IsDigit(c)

\* phrase.split(/[^a-z0-9]+/).map(trim).filter(Boolean): the runs of [a-z0-9]
RECURSIVE alnumPrefixLen(_)
alnumPrefixLen(s) ==
    IF s # <<>> /\ IsAlnum(Head(s)) THEN 1 + alnumPrefixLen(Tail(s)) ELSE 0

RECURSIVE queryTokens(_)
queryTokens(s) ==
    IF s = <<>> THEN <<>>
    ELSE IF ~IsAlnum(Head(s)) THEN queryTokens(Tail(s))
    ELSE LET k == alnumPrefixLen(s)
         IN <<SubSeq(s, 1, k)>> \o queryTokens(SubSeq(s, k + 1, Len(s)))

\* Array.prototype.join(' ')
RECURSIVE joinSpace(_)
joinSpace(parts) ==
    IF parts = <<>> THEN <<>>
    ELSE IF Len(parts) = 1 THEN parts[1]
    ELSE parts[1] \o <<SPACE>> \o joinSpace(Tail(parts))

coreText(el) == toLowerCase(joinSpace(<<el.id, el.text, el.elementType, el.role>>))
auxText(el) ==
    toLowerCase(joinSpace(<<el.gridRef, el.actionability>> \o el.likelyActions))

\* the loop over the tokens: tokenMatchesCore, tokenMatchesAux and the score
\* added for tokens found in the text and in the id
RECURSIVE tokenTally(_, _)
tokenTally(el, tokens) ==
    IF tokens = <<>> THEN [core |-> 0, aux |-> 0, score |-> 0]
    ELSE LET rest == tokenTally(el, Tail(tokens))
             token == Head(tokens)
             inCore == IsSubstring(token, coreText(el))
             inAux == ~inCore /\ IsSubstring(token, auxText(el))
         IN [core |-> rest.core + (IF inCore THEN 1 ELSE 0),
             aux |-> rest.aux + (IF inAux THEN 1 ELSE 0),
             score |-> rest.score
                       + (IF IsSubstring(token, toLowerCase(el.text)) THEN 4 ELSE 0)
                       + (IF IsSubstring(token, toLowerCase(el.id)) THEN 4 ELSE 0)]

\* a loop without the `continue`
isSkippedNever(el, phrase) == FALSE

\* the `continue`: neither text holds the phrase and less than half of the
\* tokens were found (coverage is 1 when there are no tokens)
isSkipped(el, phrase) ==
    LET tokens == queryTokens(phrase)
        tally == tokenTally(el, tokens)
    IN /\ ~IsSubstring(phrase, coreText(el))
       /\ ~IsSubstring(phrase, auxText(el))
       /\ tokens # <<>>
       /\ 2 * (tally.core + tally.aux) < Len(tokens)

\* a score made of the token and importance terms only
elementScoreTokensOnly(el, phrase) ==
    LET tally == tokenTally(el, queryTokens(phrase))
    IN tally.score + tally.core * 16 + tally.aux * 4
       + (IF toLowerCase(el.importance) = <<99, 114, 105, 116, 105, 99, 97, 108>> THEN 2
          ELSE 0)
       + (IF toLowerCase(el.importance) = <<104, 105, 103, 104>> THEN 1 ELSE 0)

\* the score of an element that is not skipped
elementScore(el, phrase) ==
    LET tally == tokenTally(el, queryTokens(phrase))
    IN (IF IsSubstring(phrase, coreText(el)) THEN 80 ELSE 0)
       + (IF IsSubstring(phrase, auxText(el)) THEN 20 ELSE 0)
       + (IF toLowerCase(el.text) = phrase THEN 20 ELSE 0)
       + (IF toLowerCase(el.id) = phrase THEN 20 ELSE 0)
       + tally.score + tally.core * 16 + tally.aux * 4
       + (IF toLowerCase(el.importance) = <<99, 114, 105, 116, 105, 99, 97, 108>> THEN 2
          ELSE 0)
       + (IF toLowerCase(el.importance) = <<104, 105, 103, 104>> THEN 1 ELSE 0)

\* a comparison that lets a later element with an equal score take over
replacesBestOrTies(score, bestScore) == score >= bestScore

\* if (score > bestScore)
replacesBest(score, bestScore) == score > bestScore

\* the for loop from element i on; best is the position of the best element
\* so far (0: undefined)
RECURSIVE bestLoop(_, _, _, _)
bestLoop(elements, phrase, i, st) ==
    IF i > Len(elements) THEN st
    ELSE IF st.best < 0 THEN st
    ELSE IF isSkipped(elements[i], phrase) THEN bestLoop(elements, phrase, i + 1, st)
    ELSE IF replacesBest(elementScore(elements[i], phrase), st.bestScore)
    THEN bestLoop(elements, phrase, i + 1,
                  [best |-> i, bestScore |-> elementScore(elements[i], phrase)])
    ELSE bestLoop(elements, phrase, i + 1, st)

\* findBestInteractiveElement: the position of the returned element in
\* `elements`, 0 for undefined
findBestInteractiveElement(elements, query) ==
    LET st == bestLoop(elements, toLowerCase(query), 1, [best |-> 0, bestScore |-> 0])
    IN IF st.bestScore > 0 THEN st.best ELSE 0

\* ---- what the model may have labelled, and what may be asked for ----
LabelledElements ==
    { \* two buttons that differ in their id only
      [id |-> <<98, 49>>, text |-> <<83, 97, 118, 101>>, elementType |-> <<98, 117, 116, 116, 111, 110>>, role |-> <<>>,
       gridRef |-> <<65, 49>>, actionability |-> <<99, 108, 105, 99, 107, 97, 98, 108, 101>>,
       likelyActions |-> <<<<99, 108, 105, 99, 107>>>>, importance |-> <<104, 105, 103, 104>>],
      [id |-> <<98, 50>>, text |-> <<83, 97, 118, 101>>, elementType |-> <<98, 117, 116, 116, 111, 110>>, role |-> <<>>,
       gridRef |-> <<65, 50>>, actionability |-> <<99, 108, 105, 99, 107, 97, 98, 108, 101>>,
       likelyActions |-> <<<<99, 108, 105, 99, 107>>>>, importance |-> <<104, 105, 103, 104>>],
      \* the best match for "save"
      [id |-> <<115, 97, 118, 101>>, text |-> <<83, 97, 118, 101, 32, 97, 108, 108>>, elementType |-> <<98, 117, 116, 116, 111, 110>>, role |-> <<98, 117, 116, 116, 111, 110>>,
       gridRef |-> <<66, 49>>, actionability |-> <<99, 108, 105, 99, 107, 97, 98, 108, 101>>,
       likelyActions |-> <<<<99, 108, 105, 99, 107>>>>, importance |-> <<99, 114, 105, 116, 105, 99, 97, 108>>],
      \* "save" in the auxiliary text only, no text, unimportant
      [id |-> <<120>>, text |-> <<>>, elementType |-> <<108, 105, 110, 107>>, role |-> <<>>,
       gridRef |-> <<67, 49>>, actionability |-> <<99, 108, 105, 99, 107, 97, 98, 108, 101>>,
       likelyActions |-> <<<<115, 97, 118, 101>>, <<111, 112, 101, 110>>>>, importance |-> <<108, 111, 119>>],
      \* nothing to do with saving, critical
      [id |-> <<110>>, text |-> <<72, 101, 108, 112>>, elementType |-> <<108, 105, 110, 107>>, role |-> <<>>,
       gridRef |-> <<68, 49>>, actionability |-> <<99, 108, 105, 99, 107, 97, 98, 108, 101>>,
       likelyActions |-> <<<<111, 112, 101, 110>>>>, importance |-> <<67, 114, 105, 116, 105, 99, 97, 108>>] }

RECURSIVE ElementLists(_)
ElementLists(n) ==
    IF n = 0 THEN {<<>>}
    ELSE ElementLists(n - 1)
         \cup {Append(l, e) : l \in {k \in ElementLists(n - 1) : Len(k) = n - 1},
                              e \in LabelledElements}

\* "save", " Save ", "save all", "click save now", "?", "zz", "" and " "
Queries ==
    { <<115, 97, 118, 101>>, <<32, 83, 97, 118, 101, 32>>,
      <<115, 97, 118, 101, 32, 97, 108, 108>>,
      <<99, 108, 105, 99, 107, 32, 115, 97, 118, 101, 32, 110, 111, 119>>, <<63>>, <<122, 122>>, <<>>, <<SPACE>> }

FindError(e) == [kind |-> "error", error |-> e]
Found(stage, i) == [kind |-> "ok", stage |-> stage, index |-> i]

FindInit ==
    /\ IdleButFind
    /\ fiQuery \in Queries
    /\ fiPc = "idle" /\ fiHigh = <<>> /\ fiExtreme = <<>> /\ fiOutcome = NoOutcome
    /\ fiPasses = <<>>

\* a call that asks for the high-detail labels whatever the query is
FindCallUnchecked ==
    /\ fiPc = "idle"
    /\ fiPc' = "high"
    /\ fiPasses' = Append(fiPasses, "high")
    /\ UNCHANGED <<fiQuery, fiHigh, fiExtreme, fiOutcome>>
    /\ UNCHANGED notFind

\* findInteractiveElement is called: the empty-query check, then labels() with
\* detail level high is awaited
FindCall ==
    /\ fiPc = "idle"
    /\ IF trim(fiQuery) = <<>>
       THEN /\ fiOutcome' = FindError("findInteractiveElement() requires a non-empty query.")
            /\ fiPc' = "done"
            /\ UNCHANGED fiPasses
       ELSE /\ fiPc' = "high"
            /\ fiPasses' = Append(fiPasses, "high")
            /\ UNCHANGED fiOutcome
    /\ UNCHANGED <<fiQuery, fiHigh, fiExtreme>>
    /\ UNCHANGED notFind

\* the high-detail labels arrive (or labels() fails): a match is returned,
\* otherwise labels() with detail level extreme is awaited
HighLabels ==
    /\ fiPc = "high"
    /\ \/ /\ fiOutcome' = FindError("labels failed")
          /\ fiPc' = "done"
          /\ UNCHANGED <<fiHigh, fiPasses>>
       \/ \E elements \in ElementLists(MaxElements) :
            /\ fiHigh' = elements
            /\ LET highMatch == findBestInteractiveElement(elements, trim(fiQuery))
               IN IF highMatch # 0
                  THEN /\ fiOutcome' = Found("high", highMatch) /\ fiPc' = "done"
                       /\ UNCHANGED fiPasses
                  ELSE /\ fiPc' = "extreme" /\ UNCHANGED fiOutcome
                       /\ fiPasses' = Append(fiPasses, "extreme")
    /\ UNCHANGED <<fiQuery, fiExtreme>>
    /\ UNCHANGED notFind

\* the extreme-detail labels arrive (or labels() fails): a match is returned,
\* otherwise the no-match error is thrown
ExtremeLabels ==
    /\ fiPc = "extreme"
    /\ \/ /\ fiOutcome' = FindError("labels failed")
          /\ UNCHANGED fiExtreme
       \/ \E elements \in ElementLists(MaxExtreme) :
            /\ fiExtreme' = elements
            /\ LET extremeMatch == findBestInteractiveElement(elements, trim(fiQuery))
               IN fiOutcome' = IF extremeMatch # 0 THEN Found("extreme", extremeMatch)
                               ELSE FindError("No interactive element matched query")
    /\ fiPc' = "done"
    /\ UNCHANGED <<fiQuery, fiHigh, fiPasses>>
    /\ UNCHANGED notFind

FindNext == FindCall \/ HighLabels \/ ExtremeLabels

SpecFind == FindInit /\ [][FindNext]_vars

\* ---- the best element of a list, said without the loop ----
Phrase == toLowerCase(trim(fiQuery))

\* the score of every element of the list, -1 for a skipped one
RECURSIVE Scores(_, _)
Scores(elements, phrase) ==
    IF elements = <<>> THEN <<>>
    ELSE <<IF isSkipped(Head(elements), phrase) THEN -1
           ELSE elementScore(Head(elements), phrase)>>
         \o Scores(Tail(elements), phrase)

\* the first position with the top score when that score is above 0, else 0
FirstBest(elements) ==
    LET scores == Scores(elements, Phrase)
        tops == {i \in DOMAIN scores : \A j \in DOMAIN scores : scores[j] <= scores[i]}
    IN IF tops = {} THEN 0
       ELSE LET first == CHOOSE i \in tops : \A j \in tops : i <= j
            IN IF scores[first] > 0 THEN first ELSE 0

\* C22: findBestInteractiveElement returns the first of the elements that
\* have the highest score among those not skipped when that score is above 0,
\* and nothing when no element scores above 0; findInteractiveElement fails
\* with the no-match error when neither detail level gave a match.
C22_BestElement ==
    LET high == FirstBest(fiHigh)
        extreme == FirstBest(fiExtreme)
        NoMatch == FindError("No interactive element matched query")
    IN /\ (fiPc \in {"extreme", "done"} /\ fiOutcome # FindError("labels failed")
           /\ trim(fiQuery) # <<>>) =>
             /\ high # 0 => fiOutcome = Found("high", high)
             /\ high = 0 => fiOutcome.kind # "ok" \/ fiOutcome.stage = "extreme"
             /\ (high = 0 /\ fiPc = "done") =>
                   /\ extreme # 0 => fiOutcome = Found("extreme", extreme)
                   /\ extreme = 0 => fiOutcome = NoMatch
       /\ fiOutcome = NoMatch => (high = 0 /\ extreme = 0 /\ fiPc = "done")

\* three elements for "save": the two tied buttons come first and the first of
\* them is passed over for the better third; and a tie that the first wins
C22_Witness ==
    /\ fiPc = "done" /\ Len(fiHigh) = 3
    /\ LET scores == Scores(fiHigh, Phrase)
       IN /\ scores[1] = scores[2] /\ fiHigh[1] # fiHigh[2]
          /\ scores[1] > scores[3] /\ scores[3] > 0
    /\ fiOutcome = Found("high", 1)

\* ---- what a returned element has in common with the query ----
\* the phrase is in the element's core or secondary text
PhraseIn(el) == IsSubstring(Phrase, coreText(el)) \/ IsSubstring(Phrase, auxText(el))

\* the number of query tokens found in the element's core or secondary text
TokensMatched(el) ==
    LET tokens == queryTokens(Phrase)
    IN Cardinality({i \in DOMAIN tokens : \/ IsSubstring(tokens[i], coreText(el))
                                         \/ IsSubstring(tokens[i], auxText(el))})

\* the element findInteractiveElement returned
ReturnedElement ==
    IF fiOutcome.stage = "high" THEN fiHigh[fiOutcome.index] ELSE fiExtreme[fiOutcome.index]

\* the element's text is the query, letter case aside
ExactText(el) == toLowerCase(el.text) = Phrase

\* the element has one query token and nothing else of the query
SingleTokenOnly(el) == ~PhraseIn(el) /\ TokensMatched(el) = 1

\* what C31 says of one labelled list
ExactOutranks(elements) ==
    LET scores == Scores(elements, Phrase)
    IN \A i \in DOMAIN elements :
          ExactText(elements[i]) =>
              /\ scores[i] >= 100
              /\ \A j \in DOMAIN elements :
                    SingleTokenOnly(elements[j]) => scores[j] < scores[i]

\* C31: an element whose text is the query, letter case aside, scores at
\* least 100 and more than every element that shares a single token with the
\* query and nothing else; when the labelled list holds such an element, the
\* element returned from the list is not a single-token one.
C31_ExactTextOutranks ==
    (trim(fiQuery) # <<>>) =>
        /\ ExactOutranks(fiHigh)
        /\ ExactOutranks(fiExtreme)
        /\ (fiPc \in {"extreme", "done"} /\ \E i \in DOMAIN fiHigh : ExactText(fiHigh[i])) =>
              /\ fiOutcome.kind = "ok" /\ fiOutcome.stage = "high"
              /\ ~SingleTokenOnly(ReturnedElement)

\* "save all": the first element has the token "save" only, the second has
\* the text "Save all" and is returned
C31_Witness ==
    /\ fiPc = "done" /\ Len(fiHigh) >= 2
    /\ Len(queryTokens(Phrase)) = 2
    /\ SingleTokenOnly(fiHigh[1]) /\ Scores(fiHigh, Phrase)[1] > 0
    /\ ExactText(fiHigh[2])
    /\ fiOutcome = Found("high", 2)

\* C32: an element that holds the query phrase in neither its core nor its
\* secondary text and matches fewer than half of the query tokens is not the
\* element returned, whatever its importance.
C32_LowCoverageExcluded ==
    fiOutcome.kind = "ok" =>
        ~(/\ ~PhraseIn(ReturnedElement)
          /\ 2 * TokensMatched(ReturnedElement) < Len(queryTokens(Phrase)))

\* "click save now": the first element is critical and has one of the three
\* tokens, and the second, with two of them, is returned
C32_Witness ==
    /\ fiPc = "done" /\ Len(fiHigh) = 2
    /\ Len(queryTokens(Phrase)) = 3
    /\ ~PhraseIn(fiHigh[1]) /\ TokensMatched(fiHigh[1]) = 1
    /\ toLowerCase(fiHigh[1].importance) = <<99, 114, 105, 116, 105, 99, 97, 108>>
    /\ fiOutcome = Found("high", 2)

\* C39: the element returned holds the query phrase or at least one query
\* token in its core or secondary text, for every query.
C39_ReturnedMatchesQuery ==
    fiOutcome.kind = "ok" =>
        (PhraseIn(ReturnedElement) \/ TokensMatched(ReturnedElement) >= 1)

\* C34: a query that is empty after trimming is refused without a labels
\* pass; otherwise the high-detail pass runs first and its best match is
\* returned; the extreme-detail pass runs only after a high-detail pass with
\* no match; and the no-match error comes only after both passes ran and
\* neither gave a match.
C34_PassOrder ==
    LET NoMatch == FindError("No interactive element matched query")
        high == FirstBest(fiHigh)
        extreme == FirstBest(fiExtreme)
    IN /\ fiPasses \in {<<>>, <<"high">>, <<"high", "extreme">>}
       /\ trim(fiQuery) = <<>> => fiPasses = <<>>
       /\ (trim(fiQuery) = <<>> /\ fiPc # "idle") =>
             /\ fiPc = "done"
             /\ fiOutcome = FindError("findInteractiveElement() requires a non-empty query.")
       /\ (trim(fiQuery) # <<>> /\ fiPc # "idle") => fiPasses # <<>>
       /\ fiPasses = <<"high", "extreme">> =>
             /\ fiPc \in {"extreme", "done"}
             /\ high = 0
       /\ (fiPc = "done" /\ high # 0) =>
             /\ fiPasses = <<"high">>
             /\ fiOutcome = Found("high", high)
       /\ fiOutcome.kind = "ok" =>
             fiOutcome.stage = (IF Len(fiPasses) = 1 THEN "high" ELSE "extreme")
       /\ fiOutcome = NoMatch =>
             /\ fiPasses = <<"high", "extreme">>
             /\ high = 0 /\ extreme = 0

\* "save": the high-detail pass found nothing to match, the extreme-detail
\* pass ran and its element was returned
C34_Witness ==
    /\ fiPc = "done" /\ fiPasses = <<"high", "extreme">>
    /\ fiHigh # <<>> /\ FirstBest(fiHigh) = 0
    /\ fiOutcome = Found("extreme", 1)

\* ========================================================================
\* Normalisation of a parsed model answer
\* ========================================================================
\* A JavaScript value is a record with a `type`; numbers are kept in
\* hundredths (0.5 is 50).
Undefined == [type |-> "undefined"]
Null == [type |-> "null"]
Bool(b) == [type |-> "boolean", value |-> b]
Num(hundredths) == [type |-> "number", finite |-> TRUE, value |-> hundredths]
NotFinite == [type |-> "number", finite |-> FALSE, value |-> 0]
Str(chars) == [type |-> "string", chars |-> chars]
Arr(items) == [type |-> "array", items |-> items]
Obj(fields) == [type |-> "object", fields |-> fields]

\* value[name]
get(value, name) ==
    IF value.type = "object" /\ name \in DOMAIN value.fields THEN value.fields[name]
    ELSE Undefined

\* String(n) for a number in hundredths
formatNumber(n) ==
    LET abs == IF n < 0 THEN -n ELSE n
        whole == numToString(abs \div 100)
        frac == abs % 100
        digits == IF frac = 0 THEN <<>>
                  ELSE IF frac % 10 = 0 THEN <<46, 48 + (frac \div 10)>>
                  ELSE <<46, 48 + (frac \div 10), 48 + (frac % 10)>>
    IN (IF n < 0 THEN <<45>> ELSE <<>>) \o whole \o digits

\* the numeric value of a trimmed string: [sign] digits [. digits], in
\* hundredths; anything else is NaN
stringToNumber(s) ==
    LET body == IF s # <<>> /\ Head(s) \in {43, 45} THEN Tail(s) ELSE s
        sign == IF s # <<>> /\ Head(s) = 45 THEN -1 ELSE 1
        dots == {i \in DOMAIN body : body[i] = 46}
        dot == IF dots = {} THEN Len(body) + 1 ELSE CHOOSE i \in dots : \A j \in dots : i <= j
        whole == SubSeq(body, 1, dot - 1)
        frac == SubSeq(body, dot + 1, Len(body))
        allDigits(t) == \A i \in DOMAIN t : IsDigit(t[i])
        hundredths == IF frac = <<>> THEN 0
                      ELSE IF Len(frac) = 1 THEN (frac[1] - 48) * 10
                      ELSE (frac[1] - 48) * 10 + (frac[2] - 48)
    IN IF s = <<>> THEN [finite |-> TRUE, value |-> 0]
       ELSE IF allDigits(whole) /\ allDigits(frac) /\ Len(frac) <= 2
               /\ (whole # <<>> \/ frac # <<>>) /\ Cardinality(dots) <= 1
       THEN [finite |-> TRUE, value |-> sign * (parseInt(whole) * 100 + hundredths)]
       ELSE [finite |-> FALSE, value |-> 0]

\* String(value) of a value that is not an array
scalarString(value) ==
    CASE value.type = "string" -> value.chars
      [] value.type = "number" ->
            IF value.finite THEN formatNumber(value.value)
            ELSE <<73, 110, 102, 105, 110, 105, 116, 121>>               \* Infinity
      [] value.type = "boolean" ->
            IF value.value THEN <<116, 114, 117, 101>> ELSE <<102, 97, 108, 115, 101>>
      [] value.type = "object" ->
            <<91, 111, 98, 106, 101, 99, 116, SPACE, 79, 98, 106, 101, 99, 116, 93>>
      [] OTHER -> <<>>

\* Array.prototype.join(',') of the strings of the items (null and undefined
\* give the empty string)
RECURSIVE joinComma(_)
joinComma(items) ==
    IF items = <<>> THEN <<>>
    ELSE IF Len(items) = 1 THEN scalarString(items[1])
    ELSE scalarString(items[1]) \o <<44>> \o joinComma(Tail(items))

\* String(value ?? '')
jsString(value) ==
    IF value.type = "array" THEN joinComma(value.items) ELSE scalarString(value)

\* Number(value)
toNumber(value) ==
    CASE value.type = "number" -> [finite |-> value.finite, value |-> value.value]
      [] value.type = "null" -> [finite |-> TRUE, value |-> 0]
      [] value.type = "boolean" -> [finite |-> TRUE, value |-> IF value.value THEN 100 ELSE 0]
      [] value.type = "string" -> stringToNumber(trim(value.chars))
      [] value.type = "array" -> stringToNumber(trim(joinComma(value.items)))
      [] OTHER -> [finite |-> FALSE, value |-> 0]

\* a toConfidence that does not look at the upper end
toConfidenceNoCeiling(value) ==
    LET parsed == toNumber(value)
    IN IF ~parsed.finite THEN Num(0)
       ELSE IF parsed.value < 0 THEN Num(0)
       ELSE Num(parsed.value)

toConfidence(value) ==
    LET parsed == toNumber(value)
    IN IF ~parsed.finite THEN Num(0)
       ELSE IF parsed.value < 0 THEN Num(0)
       ELSE IF parsed.value > 100 THEN Num(100)
       ELSE Num(parsed.value)

toArray(value) == IF value.type = "array" THEN value.items ELSE <<>>

toRecord(value) == IF value.type = "object" THEN value ELSE Obj(<<>>)

\* a variant that leaves an empty string field out instead of filling it
toNonEmptyStringOrAbsent(value, fallback) ==
    LET text == trim(jsString(value))
    IN IF text # <<>> THEN Str(text) ELSE Undefined

toNonEmptyString(value, fallback) ==
    LET text == trim(jsString(value))
    IN Str(IF text # <<>> THEN text ELSE fallback)

toOptionalString(value) ==
    LET text == trim(jsString(value))
    IN IF text # <<>> THEN Str(text) ELSE Undefined

\* value.map(entry => String(entry ?? '').trim()).filter(Boolean)
RECURSIVE trimmedNonEmpty(_)
trimmedNonEmpty(items) ==
    IF items = <<>> THEN <<>>
    ELSE LET text == trim(jsString(Head(items)))
         IN (IF text # <<>> THEN <<Str(text)>> ELSE <<>>) \o trimmedNonEmpty(Tail(items))

toStringArray(value) ==
    IF value.type # "array" THEN Arr(<<>>) ELSE Arr(trimmedNonEmpty(value.items))

\* Array.prototype.join(sep) on character sequences
RECURSIVE joinWith(_, _)
joinWith(parts, sep) ==
    IF parts = <<>> THEN <<>>
    ELSE IF Len(parts) = 1 THEN parts[1]
    ELSE parts[1] \o sep \o joinWith(Tail(parts), sep)

\* `<prefix>${index + 1}`
fallbackId(prefix, index) == prefix \o numToString(index)

normalizeInteractiveElement(value, fallback) ==
    Obj([id |-> toNonEmptyString(get(value, "id"), fallback),
         gridRef |-> toNonEmptyString(get(value, "gridRef"), <<>>),
         elementType |-> toNonEmptyString(get(value, "elementType"), <<117, 110, 107, 110, 111, 119, 110>>),
         role |-> toOptionalString(get(value, "role")),
         text |-> toNonEmptyString(get(value, "text"), <<>>),
         actionability |-> toNonEmptyString(get(value, "actionability"), <<>>),
         likelyActions |-> toStringArray(get(value, "likelyActions")),
         importance |-> toNonEmptyString(get(value, "importance"), <<117, 110, 107, 110, 111, 119, 110>>),
         whyItMatters |-> toNonEmptyString(get(value, "whyItMatters"), <<>>),
         confidence |-> toConfidence(get(value, "confidence"))])

normalizeLayoutRegion(item, index) ==
    LET region == toRecord(item)
    IN Obj([id |-> toNonEmptyString(get(region, "id"), fallbackId(<<114, 101, 103, 105, 111, 110, 95>>, index)),
            gridRange |-> toNonEmptyString(get(region, "gridRange"), <<>>),
            regionType |-> toNonEmptyString(get(region, "regionType"), <<117, 110, 107, 110, 111, 119, 110>>),
            purpose |-> toNonEmptyString(get(region, "purpose"), <<>>),
            keyContents |-> toStringArray(get(region, "keyContents"))])

normalizePointOfInterest(item, index) ==
    LET poi == toRecord(item)
    IN Obj([id |-> toNonEmptyString(get(poi, "id"), fallbackId(<<112, 111, 105, 95>>, index)),
            gridRef |-> toNonEmptyString(get(poi, "gridRef"), <<>>),
            title |-> toNonEmptyString(get(poi, "title"), <<>>),
            category |-> toNonEmptyString(get(poi, "category"), <<117, 110, 107, 110, 111, 119, 110>>),
            detail |-> toNonEmptyString(get(poi, "detail"), <<>>),
            reason |-> toNonEmptyString(get(poi, "reason"), <<>>),
            relatedElementIds |-> toStringArray(get(poi, "relatedElementIds")),
            confidence |-> toConfidence(get(poi, "confidence"))])

\* items.map((item, index) => f(item, index + 1))
mapIndexed(items, f(_, _)) == [i \in DOMAIN items |-> f(items[i], i)]

normalizeElementAt(item, index) ==
    normalizeInteractiveElement(toRecord(item), fallbackId(<<101, 108, 101, 109, 101, 110, 116, 95>>, index))

normalizeLabelsResult(value, model) ==
    Obj([pageSummary |-> toNonEmptyString(get(value, "pageSummary"), <<>>),
         pageType |-> toNonEmptyString(get(value, "pageType"), <<117, 110, 107, 110, 111, 119, 110>>),
         layoutRegions |->
             Arr(mapIndexed(toArray(get(value, "layoutRegions")), normalizeLayoutRegion)),
         interactiveElements |->
             Arr(mapIndexed(toArray(get(value, "interactiveElements")), normalizeElementAt)),
         pointsOfInterest |->
             Arr(mapIndexed(toArray(get(value, "pointsOfInterest")),
                            normalizePointOfInterest)),
         keyFlows |-> toStringArray(get(value, "keyFlows")),
         risksAndWatchouts |-> toStringArray(get(value, "risksAndWatchouts")),
         confidence |-> toConfidence(get(value, "confidence")),
         model |-> Str(model)])

directRegion(item, index) ==
    LET region == toRecord(item)
    IN Obj([gridRange |-> toNonEmptyString(get(region, "gridRange"), <<>>),
            description |-> toNonEmptyString(get(region, "description"), <<>>)])

chars(items) == [i \in DOMAIN items |-> items[i].chars]

fallbackRegion(item, index) ==
    LET region == toRecord(item)
        purpose == toNonEmptyString(get(region, "purpose"), <<>>).chars
        keyContents == joinWith(chars(toStringArray(get(region, "keyContents")).items),
                                <<44, SPACE>>)
        description == joinWith(SelectSeq(<<purpose, keyContents>>, LAMBDA t : t # <<>>),
                                <<SPACE, 124, SPACE>>)
    IN Obj([gridRange |-> toNonEmptyString(get(region, "gridRange"), <<>>),
            description |-> Str(IF description # <<>> THEN description
                                ELSE <<82, 101, 103, 105, 111, 110>>)])

normalizeOverviewResult(value, model) ==
    LET directRegions == mapIndexed(toArray(get(value, "regions")), directRegion)
        fallbackRegions == mapIndexed(toArray(get(value, "layoutRegions")), fallbackRegion)
        regions == IF Len(directRegions) > 0 THEN directRegions ELSE fallbackRegions
        kept == SelectSeq(regions, LAMBDA r : r.fields.gridRange.chars # <<>>
                                             /\ r.fields.description.chars # <<>>)
    IN Obj([pageSummary |-> toNonEmptyString(get(value, "pageSummary"), <<>>),
            pageType |-> toNonEmptyString(get(value, "pageType"), <<117, 110, 107, 110, 111, 119, 110>>),
            regions |-> Arr(SubSeq(kept, 1, IF Len(kept) < 8 THEN Len(kept) ELSE 8)),
            confidence |-> toConfidence(get(value, "confidence")),
            model |-> Str(model)])

\* ---- what the model may have answered ----
TextA == <<97>>
\* what a confidence may be: absent, null, -0.5, 0, 0.5, 1, 1.5, 1e999, true,
\* false, "0.5", "abc", [0.7], {}
ConfidenceInputs ==
    {Undefined, Null, Num(-50), Num(0), Num(50), Num(100), Num(150), NotFinite,
     Bool(TRUE), Bool(FALSE), Str(<<48, 46, 53>>), Str(<<97, 98, 99>>),
     Arr(<<Num(70)>>), Obj(<<>>)}

\* the confidences tried inside elements and points of interest
InnerConfidences == {Num(150), Num(-50), Bool(TRUE), Str(<<97, 98, 99>>)}

ElementInputs ==
    {Str(TextA), Obj(<<>>), Obj([role |-> Null, text |-> Num(700)])}
    \cup {Obj([id |-> Str(TextA), role |-> Str(<<98, 117, 116, 116, 111, 110>>),
               likelyActions |-> Arr(<<Str(TextA), Null, Str(<<SPACE>>)>>),
               confidence |-> c]) : c \in InnerConfidences}

PointInputs ==
    {Undefined, Null, Arr(<<Obj(<<>>)>>)}
    \cup {Arr(<<Obj([title |-> Str(TextA), relatedElementIds |-> Str(TextA),
                     confidence |-> c])>>) : c \in {Num(150), Str(<<97, 98, 99>>)}}

ParsedFields ==
    [pageSummary : {Undefined, Str(<<SPACE, 97>>)},
     confidence : ConfidenceInputs,
     interactiveElements : {Undefined, Str(TextA), Arr(<<>>)}
                           \cup {Arr(<<e>>) : e \in ElementInputs}
                           \cup {Arr(<<Obj(<<>>), Obj([confidence |-> Bool(TRUE)])>>)},
     pointsOfInterest : PointInputs,
     layoutRegions : {Undefined, Bool(TRUE),
                      Arr(<<Obj(<<>>),
                            Obj([gridRange |-> Str(<<65, 49>>), purpose |-> Str(TextA),
                                 keyContents |-> Arr(<<Str(TextA), Num(100)>>)])>>)},
     regions : {Undefined,
                Arr(<<Obj([gridRange |-> Str(<<65, 49>>), description |-> Str(TextA)]),
                      Obj(<<>>)>>)},
     keyFlows : {Undefined, Arr(<<Str(TextA), Null, Str(<<SPACE>>)>>)}]

\* JSON has no undefined: a field whose value is Undefined is left out
withoutUndefined(fields) ==
    [name \in {n \in DOMAIN fields : fields[n] # Undefined} |-> fields[name]]

ParsedObjects == {Obj(withoutUndefined(f)) : f \in ParsedFields}

ModelName == <<103>>

NormInit ==
    /\ IdleButNorm
    /\ noKind \in {"labels", "overview"}
    /\ noParsed \in ParsedObjects
    /\ noPc = "idle" /\ noResult = Undefined

\* normalizeLabelsResult / normalizeOverviewResult on the parsed object
Normalize ==
    /\ noPc = "idle"
    /\ noResult' = IF noKind = "labels" THEN normalizeLabelsResult(noParsed, ModelName)
                   ELSE normalizeOverviewResult(noParsed, ModelName)
    /\ noPc' = "done"
    /\ UNCHANGED <<noKind, noParsed>>
    /\ UNCHANGED notNorm

NormNext == Normalize

SpecNorm == NormInit /\ [][NormNext]_vars

\* ---- the confidences of a result, each with the value the model gave ----
\* pairs <<given, normalised>>
ConfidencePairs ==
    {<<get(noParsed, "confidence"), noResult.fields.confidence>>}
    \cup (IF noKind # "labels" THEN {}
          ELSE {<<get(toRecord(toArray(get(noParsed, "interactiveElements"))[i]), "confidence"),
                  noResult.fields.interactiveElements.items[i].fields.confidence>> :
                    i \in DOMAIN noResult.fields.interactiveElements.items}
               \cup
               {<<get(toRecord(toArray(get(noParsed, "pointsOfInterest"))[i]), "confidence"),
                  noResult.fields.pointsOfInterest.items[i].fields.confidence>> :
                    i \in DOMAIN noResult.fields.pointsOfInterest.items})

InUnitInterval(c) == c.type = "number" /\ c.finite /\ c.value >= 0 /\ c.value <= 100

\* C25 as stated: every confidence of a normalised result is a number in
\* [0,1]; a value below 0 became 0, a value above 1 became 1, and a value that
\* is not a number became 0.
C25_ClampedNonNumericZero ==
    noPc = "done" =>
        \A pair \in ConfidencePairs :
            /\ InUnitInterval(pair[2])
            /\ (pair[1].type = "number" /\ pair[1].finite /\ pair[1].value < 0) =>
                  pair[2] = Num(0)
            /\ (pair[1].type = "number" /\ pair[1].finite /\ pair[1].value > 100) =>
                  pair[2] = Num(100)
            /\ pair[1].type # "number" => pair[2] = Num(0)

\* C25, amended: every confidence of a normalised result is a number in
\* [0,1]: the model's value is coerced to a number, a coerced value below 0
\* became 0, one above 1 became 1, one inside [0,1] is kept, and a value whose
\* coercion is not a finite number became 0.
C25_ClampedCoerced ==
    noPc = "done" =>
        \A pair \in ConfidencePairs :
            LET coerced == toNumber(pair[1])
            IN /\ InUnitInterval(pair[2])
               /\ ~coerced.finite => pair[2] = Num(0)
               /\ (coerced.finite /\ coerced.value < 0) => pair[2] = Num(0)
               /\ (coerced.finite /\ coerced.value > 100) => pair[2] = Num(100)
               /\ (coerced.finite /\ coerced.value \in 0..100) => pair[2] = Num(coerced.value)

\* a labels result whose top-level confidence was 1.5 and whose second
\* element had confidence true: both came out as 1
C25_Witness ==
    /\ noPc = "done" /\ noKind = "labels"
    /\ get(noParsed, "confidence") = Num(150)
    /\ noResult.fields.confidence = Num(100)
    /\ Len(noResult.fields.interactiveElements.items) = 2
    /\ get(toArray(get(noParsed, "interactiveElements"))[2], "confidence") = Bool(TRUE)
    /\ noResult.fields.interactiveElements.items[2].fields.confidence = Num(100)

\* ---- the string and array fields of a labels result ----
IsString(v) == v.type = "string"
IsStringArray(v) == v.type = "array" /\ \A i \in DOMAIN v.items : IsString(v.items[i])
AllStrings(obj, names) == \A n \in names : IsString(obj.fields[n])

\* C26: in a normalised labels result every string field of the result, of
\* each layout region, of each interactive element and of each point of
\* interest is a string (never undefined), and every array field is an array.
C26_StringsAndArraysPresent ==
    (noPc = "done" /\ noKind = "labels") =>
        LET r == noResult.fields
        IN /\ AllStrings(noResult, {"pageSummary", "pageType", "model"})
           /\ IsStringArray(r.keyFlows) /\ IsStringArray(r.risksAndWatchouts)
           /\ r.layoutRegions.type = "array" /\ r.interactiveElements.type = "array"
           /\ r.pointsOfInterest.type = "array"
           /\ \A i \in DOMAIN r.layoutRegions.items :
                 /\ AllStrings(r.layoutRegions.items[i],
                               {"id", "gridRange", "regionType", "purpose"})
                 /\ IsStringArray(r.layoutRegions.items[i].fields.keyContents)
           /\ \A i \in DOMAIN r.pointsOfInterest.items :
                 /\ AllStrings(r.pointsOfInterest.items[i],
                               {"id", "gridRef", "title", "category", "detail", "reason"})
                 /\ IsStringArray(r.pointsOfInterest.items[i].fields.relatedElementIds)
           /\ \A i \in DOMAIN r.interactiveElements.items :
                 /\ AllStrings(r.interactiveElements.items[i],
                               {"id", "gridRef", "elementType", "role", "text",
                                "actionability", "importance", "whyItMatters"})
                 /\ IsStringArray(r.interactiveElements.items[i].fields.likelyActions)

\* C26, amended: in a normalised labels result every string field other than
\* an element's optional role is a string, every array field is an array, and
\* an element's role is the trimmed non-empty text the model gave, absent
\* otherwise.
C26_PresentExceptRole ==
    (noPc = "done" /\ noKind = "labels") =>
        LET r == noResult.fields
            given == toArray(get(noParsed, "interactiveElements"))
        IN /\ AllStrings(noResult, {"pageSummary", "pageType", "model"})
           /\ IsStringArray(r.keyFlows) /\ IsStringArray(r.risksAndWatchouts)
           /\ r.layoutRegions.type = "array" /\ r.interactiveElements.type = "array"
           /\ r.pointsOfInterest.type = "array"
           /\ \A i \in DOMAIN r.layoutRegions.items :
                 /\ AllStrings(r.layoutRegions.items[i],
                               {"id", "gridRange", "regionType", "purpose"})
                 /\ IsStringArray(r.layoutRegions.items[i].fields.keyContents)
           /\ \A i \in DOMAIN r.pointsOfInterest.items :
                 /\ AllStrings(r.pointsOfInterest.items[i],
                               {"id", "gridRef", "title", "category", "detail", "reason"})
                 /\ IsStringArray(r.pointsOfInterest.items[i].fields.relatedElementIds)
           /\ \A i \in DOMAIN r.interactiveElements.items :
                 LET e == r.interactiveElements.items[i].fields
                     role == trim(jsString(get(toRecord(given[i]), "role")))
                 IN /\ AllStrings(r.interactiveElements.items[i],
                                  {"id", "gridRef", "elementType", "text",
                                   "actionability", "importance", "whyItMatters"})
                    /\ IsStringArray(e.likelyActions)
                    /\ e.role = (IF role # <<>> THEN Str(role) ELSE Undefined)

\* a labels result for a response with no summary and one empty element: the
\* summary is the empty string, the page type and the element's id are
\* placeholders, the lists are empty arrays
C26_Witness ==
    /\ noPc = "done" /\ noKind = "labels"
    /\ get(noParsed, "pageSummary") = Undefined
    /\ get(noParsed, "keyFlows") = Undefined
    /\ toArray(get(noParsed, "interactiveElements")) = <<Obj(<<>>)>>
    /\ noResult.fields.pageSummary = Str(<<>>)
    /\ noResult.fields.pageType = Str(<<117, 110, 107, 110, 111, 119, 110>>)
    /\ noResult.fields.keyFlows = Arr(<<>>)
    /\ noResult.fields.interactiveElements.items[1].fields.id
           = Str(<<101, 108, 101, 109, 101, 110, 116, 95, 49>>)
    /\ noResult.fields.interactiveElements.items[1].fields.likelyActions = Arr(<<>>)

\* ------------------------------------------------------------------------
\* Two public operations called at the same time
\* ------------------------------------------------------------------------
\* Every public operation is "await launchDaemon(config)" followed by its
\* bridge call.  Called without awaiting one another, the two calls interleave
\* at their awaits: the fetch of isCdpReachable, each round of waitForCdp and
\* the bridge worker.  Nothing in the client serialises them.
Callers == {1, 2}
ConcurrentOps == {"scanZones", "execute"}

\* what a fetch of waitForCdp and its sleep cost, in ms, on a slow endpoint
CoPollCosts == {4000, 6000}

ConcurrentInit ==
    /\ IdleButCo
    /\ coOps \in [Callers -> ConcurrentOps]
    /\ coPc = [i \in Callers |-> "called"]
    /\ coUp = FALSE
    /\ coBrowsers = 0
    /\ coElapsed = [i \in Callers |-> 0]
    /\ coDaemon = [i \in Callers |-> NoDaemon]
    /\ coWorkers = <<>>

\* launchDaemon of caller i: its isCdpReachable answers; reachable returns
\* launched: false, unreachable calls spawnDaemon and enters waitForCdp
CoLaunchDaemon(i) ==
    /\ coPc[i] = "called"
    /\ IF coUp
       THEN /\ coDaemon' = [coDaemon EXCEPT ![i] =
                               [kind |-> "result", pid |-> "null", launched |-> FALSE]]
            /\ coPc' = [coPc EXCEPT ![i] = "launched"]
            /\ UNCHANGED coBrowsers
       ELSE /\ coBrowsers' = coBrowsers + 1
            /\ coDaemon' = [coDaemon EXCEPT ![i] =
                               [kind |-> "result", pid |-> "pid", launched |-> TRUE]]
            /\ coPc' = [coPc EXCEPT ![i] = "waiting"]
    /\ UNCHANGED <<coOps, coUp, coElapsed, coWorkers>>
    /\ UNCHANGED notCo

\* one round of caller i's waitForCdp: reachable ends the wait, otherwise sleep
CoWaitPoll(i) ==
    /\ coPc[i] = "waiting" /\ coElapsed[i] < CDP_WAIT_TIMEOUT_MS
    /\ IF coUp
       THEN /\ coPc' = [coPc EXCEPT ![i] = "launched"]
            /\ UNCHANGED coElapsed
       ELSE /\ \E cost \in CoPollCosts :
                  coElapsed' = [coElapsed EXCEPT ![i] = @ + cost]
            /\ UNCHANGED coPc
    /\ UNCHANGED <<coOps, coUp, coBrowsers, coDaemon, coWorkers>>
    /\ UNCHANGED notCo

\* caller i's waitForCdp returns false: its launchDaemon throws and the
\* operation rejects without a bridge call
CoWaitExpires(i) ==
    /\ coPc[i] = "waiting" /\ coElapsed[i] >= CDP_WAIT_TIMEOUT_MS
    /\ coDaemon' = [coDaemon EXCEPT ![i] =
                       ClientError("Unable to connect to Chrome CDP after launch.")]
    /\ coPc' = [coPc EXCEPT ![i] = "failed"]
    /\ UNCHANGED <<coOps, coUp, coBrowsers, coElapsed, coWorkers>>
    /\ UNCHANGED notCo

\* caller i's launchDaemon has returned: runBridge spawns its worker
CoRunBridge(i) ==
    /\ coPc[i] = "launched"
    /\ coWorkers' = Append(coWorkers, i)
    /\ coPc' = [coPc EXCEPT ![i] = "bridge"]
    /\ UNCHANGED <<coOps, coUp, coBrowsers, coElapsed, coDaemon>>
    /\ UNCHANGED notCo

\* caller i's worker closes and the operation settles
CoBridgeCloses(i) ==
    /\ coPc[i] = "bridge"
    /\ coPc' = [coPc EXCEPT ![i] = "done"]
    /\ UNCHANGED <<coOps, coUp, coBrowsers, coElapsed, coDaemon, coWorkers>>
    /\ UNCHANGED notCo

CoUnfinished == \E i \in Callers : coPc[i] \notin {"done", "failed"}

\* a spawned browser's debugging endpoint starts answering, or the browser
\* goes away
CoEndpointUp ==
    /\ ~coUp /\ coBrowsers > 0 /\ CoUnfinished
    /\ coUp' = TRUE
    /\ UNCHANGED <<coOps, coPc, coBrowsers, coElapsed, coDaemon, coWorkers>>
    /\ UNCHANGED notCo

CoEndpointDown ==
    /\ coUp /\ CoUnfinished
    /\ coUp' = FALSE
    /\ UNCHANGED <<coOps, coPc, coBrowsers, coElapsed, coDaemon, coWorkers>>
    /\ UNCHANGED notCo

ConcurrentNext ==
    \/ \E i \in Callers : CoLaunchDaemon(i)
    \/ \E i \in Callers : CoWaitPoll(i)
    \/ \E i \in Callers : CoWaitExpires(i)
    \/ \E i \in Callers : CoRunBridge(i)
    \/ \E i \in Callers : CoBridgeCloses(i)
    \/ CoEndpointUp \/ CoEndpointDown

SpecConcurrent == ConcurrentInit /\ [][ConcurrentNext]_vars

\* the callers whose bridge worker has been spawned
WorkerSpawned(i) == \E k \in DOMAIN coWorkers : coWorkers[k] = i

\* C40: when two public operations are started concurrently while the
\* endpoint is unreachable, at most one browser process is spawned, and each
\* operation's worker is spawned only after its own launchDaemon has
\* completed successfully.
C40_OneBrowserForTwoCallers ==
    /\ coBrowsers <= 1
    /\ \A i \in DOMAIN coPc :
          WorkerSpawned(i) => (coDaemon[i] # NoDaemon /\ coDaemon[i].kind = "result"
                               /\ coPc[i] \in {"bridge", "done"})

====
